---- MODULE Spec2Model ----
(***************************************************************************)
(* TeamSync: the workspace membership store and the ownership / role       *)
(* transition services of backend/src/services/member.service.ts.          *)
(*                                                                         *)
(* Every service is an async function; each `await` of a database call is  *)
(* one atomic step of the model, so calls of different requests interleave *)
(* between their database operations exactly as the event loop allows.     *)
(* The lookups of RoleModel read the seeded, immutable role documents and  *)
(* are part of the step they follow. The driver may throw on the writes of *)
(* transferOwnershipService, the one service that catches such an error.   *)
(***************************************************************************)
EXTENDS Integers, FiniteSets, Sequences, TLC

(* ------------------------------ bounds --------------------------------- *)
NumUsers == 3
MaxCalls == 5
MaxRaceCalls == 2
MaxRoleRaceCalls == 2
NumProcs == 2
MaxMemberId == 5

\* Chat: connections, async handlers in flight at once, client events handled.
NumConns == 2

NumTasks == 2

MaxChatOps == 3

\* How far past the history limit the seeded stores of HistorySpec go.
MaxOverflow == 1

\* Client events handled in a run of HistorySpec.
MaxHistoryOps == 2

\* Requests and client events handled, and days that pass, in a run of
\* RetentionSpec.
MaxRetentionOps == 3

MaxDays == 3

\* .limit(100) of both history queries.
HistoryLimit == 100

Users == 1..NumUsers
Procs == 1..NumProcs

(* ------------------------- reference data ------------------------------ *)
\* Roles enum (seeded once, immutable): the four role names.
Roles == {"OWNER", "CO_OWNER", "ADMIN", "MEMBER"}
\* Role names a request may carry: the four roles and names that are no role.
RoleNames == Roles \cup {"GUEST", ""}

\* The workspace of the model and an id that names no workspace document.
W == "w1"
workspaces == {W}
WorkspaceIds == {W, "w0"}
\* Values of user.currentWorkspace: this workspace, another one, or null.
WorkspacePointers == {W, "other", "null"}

\* Invite codes a request may carry: the workspace's active code and a wrong one.
InviteCode == "code-w1"
InviteCodes == {InviteCode, "bad-code"}

expectedConfirmation == "I understand that co-owners have extensive permissions"
ConfirmationTexts == {expectedConfirmation, "i understand"}

(* --------------------- Role Hierarchy Evaluator ------------------------ *)
getRoleHierarchyLevel(role) ==
  CASE role = "OWNER" -> 4
    [] role = "CO_OWNER" -> 3
    [] role = "ADMIN" -> 2
    [] role = "MEMBER" -> 1
    [] OTHER -> 0

\* Mutant: the owner shortcut is missing, so OWNER is ranked like the others.
canModifyRole_NoOwnerShortcut(requestingRole, targetRole) ==
  LET requestingLevel == getRoleHierarchyLevel(requestingRole)
      targetLevel == getRoleHierarchyLevel(targetRole)
  IN  IF requestingLevel = targetLevel THEN FALSE
      ELSE IF requestingRole \in {"OWNER", "CO_OWNER", "ADMIN"}
      THEN targetLevel < requestingLevel
      ELSE FALSE

\* Mutant: the equal-level test is dropped and "lower" becomes "not higher".
canModifyRole_EqualAllowed(requestingRole, targetRole) ==
  LET requestingLevel == getRoleHierarchyLevel(requestingRole)
      targetLevel == getRoleHierarchyLevel(targetRole)
  IN  IF requestingRole = "OWNER" THEN TRUE
      ELSE IF requestingRole = "CO_OWNER" THEN targetLevel <= requestingLevel
      ELSE IF requestingRole = "ADMIN" THEN targetLevel <= requestingLevel
      ELSE FALSE

canModifyRole(requestingRole, targetRole) ==
  LET requestingLevel == getRoleHierarchyLevel(requestingRole)
      targetLevel == getRoleHierarchyLevel(targetRole)
  IN  IF requestingRole = "OWNER" THEN TRUE
      ELSE IF requestingLevel = targetLevel THEN FALSE
      ELSE IF requestingRole = "CO_OWNER" THEN targetLevel < requestingLevel
      ELSE IF requestingRole = "ADMIN" THEN targetLevel < requestingLevel
      ELSE FALSE

(* ------------------------------ state ---------------------------------- *)
VARIABLES
  members,           \* the Member collection of workspace W: records [id, userId, role]
  owner,             \* workspace.owner
  currentWorkspace,  \* user.currentWorkspace, per user
  nextId,            \* the next fresh Member _id
  calls,             \* per request slot: the service call in flight and its locals
  ncalls,            \* calls started so far
  probe              \* inputs and results of a direct evaluation of the evaluator

\* The chat pipeline of socket.service.ts.
VARIABLES
  messages,          \* the Message collection, in insertion order
  sockets,           \* per connection: "pending", "connected" or "disconnected"
  rooms,             \* per connection: the socket.io rooms it is in
  inbox,             \* per connection: the events the server emitted to it, in order
  tasks,             \* per slot: an async handler in flight and its locals
  now,               \* the server clock (new Date())
  nops,              \* client events handled so far
  stderr,            \* the text of the last console.error line
  mongo              \* "up" or "down": whether the database answers or throws

\* The server's clock environment, the HTTP side (chat.controller.ts and the
\* error handler middleware).
VARIABLES
  env,               \* lag: ms the clock advances between two reads of one handler;
                     \* shift: change of the local UTC offset over the next two days
  failure,           \* the error handed to the error handler middleware
  response           \* the last HTTP response sent

\* The browser side: chatService.ts, the SocketProvider and the Chat component.
VARIABLE
  client             \* the socket, the events emitted, the events dispatched, the
                     \* getMessages calls and the rendered message list

memberVars == <<members, owner, currentWorkspace, nextId, calls, ncalls, probe>>

chatVars == <<messages, sockets, rooms, inbox, tasks, now, nops, stderr, mongo>>

extVars == <<env, failure, response, client>>

vars == <<members, owner, currentWorkspace, nextId, calls, ncalls, probe,
          messages, sockets, rooms, inbox, tasks, now, nops, stderr, mongo,
          env, failure, response, client>>

\* Connections (sockets) and slots for async handlers in flight.
Conns == 1 .. NumConns

Tasks == 1 .. NumTasks

\* Workspace ids that chat payloads carry; "" is a missing field.
ChatWorkspaces == {W, "w2"}

\* `workspace:${workspaceId}`
Room(workspaceId) == "workspace:" \o workspaceId

\* No document (an idle slot's doc).
NoDoc == [id |-> "", text |-> "", sender |-> "", workspaceId |-> "", timestamp |-> 0,
          expireAt |-> 0]

IdleTask == [kind |-> "idle", pc |-> "idle", conn |-> 0, userId |-> 0, workspaceId |-> "",
             doc |-> NoDoc, batch |-> <<>>, failed |-> FALSE]

NoLine == ""

\* The chat pipeline before any connection, over the given stored messages.
ChatInitOver(stored) ==
  /\ messages = stored
  /\ sockets = [c \in Conns |-> "pending"]
  /\ rooms = [c \in Conns |-> {}]
  /\ inbox = [c \in Conns |-> <<>>]
  /\ tasks = [t \in Tasks |-> IdleTask]
  /\ now = Len(stored) + 1
  /\ nops = 0
  /\ stderr = NoLine

(* ------------------ clock environment, errors, responses --------------- *)
\* Milliseconds of an hour and of a day (Date values count milliseconds).
HourMs == 3600000

DayMs == 24 * HourMs

\* date.setDate(date.getDate() + 2): the days added.
ExpireDays == 2

\* A clock whose two reads in one handler give the same millisecond, in a
\* zone whose UTC offset does not change.
CalmEnv == [lag |-> 0, shift |-> 0]

\* The clock may advance a millisecond between two reads of one handler; the
\* zone's UTC offset may go an hour up or down within the two days ahead.
ClockEnvs == [lag : {0, 1}, shift : {0, HourMs, 0 - HourMs}]

\* const d = new Date(t); d.setDate(d.getDate() + 2): the same local time of
\* day two calendar days on, which is 48 hours on less what the zone's UTC
\* offset gained meanwhile.
setDate(t) == t + ExpireDays * DayMs - env.shift

\* A thrown value as the error handler sees it: class is what instanceof
\* tells ("Error" for every other Error); "" is an undefined field.
Thrown(class, name, message, statusCode, errorCode) ==
  [class |-> class, name |-> name, message |-> message,
   statusCode |-> statusCode, errorCode |-> errorCode]

NoError == Thrown("", "", "", "", "")

\* An HTTP response: the status and the fields of the JSON body ("" and the
\* empty values are fields the body does not have).
Body(message, errorCode) ==
  [message |-> message, errorCode |-> errorCode, error |-> "", errors |-> "",
   newMessage |-> <<>>, messages |-> <<>>]

Response(status, body) == [status |-> status, body |-> body]

NoResponse == Response("", Body("", ""))

\* formatZodError(res, error)
formatZodError(error) ==
  Response("BAD_REQUEST",
           [Body("Validation failed", "VALIDATION_ERROR") EXCEPT !.errors = error.message])

\* errorHandler(error, req, res, _next): the response it sends.
errorHandler(error) ==
  IF error.name = "BadRequestException"
  THEN Response(IF error.statusCode # "" THEN error.statusCode ELSE "BAD_REQUEST",
                Body(error.message,
                     IF error.errorCode # "" THEN error.errorCode ELSE "AUTH_INVALID_TOKEN"))
  ELSE IF error.class = "SyntaxError"
  THEN Response("BAD_REQUEST",
                Body("Invalid JSON format. Please check your request body.", ""))
  ELSE IF error.class = "ZodError"
  THEN formatZodError(error)
  ELSE IF error.class = "AppError"
  THEN Response(error.statusCode, Body(error.message, error.errorCode))
  ELSE Response("INTERNAL_SERVER_ERROR",
                [Body("Internal Server Error", "INTERNAL_SERVER_ERROR")
                   EXCEPT !.error = IF error.message # "" THEN error.message
                                    ELSE "Unknown error occurred"])

\* The browser tab of user 1: its socket is connection 1.
ClientUser == 1

ClientConn == 1

\* useState<Socket | null>(null), then the instance io() made.
SocketStates == {"null", "created"}

\* A getMessages call that has not been made: its promise, the value it was
\* fulfilled with and the path that gave it, its once(LOAD_MESSAGES) listener,
\* its timer, its request to the REST endpoint, and whether the Chat
\* component has put the value on screen.
NoLoad == [promise |-> "none", value |-> <<>>, source |-> "", listening |-> FALSE,
           timer |-> FALSE, fetch |-> "none", applied |-> FALSE]

\* The tab before any effect has run. The Chat load effect runs once per value
\* of its socket dependency, so the getMessages calls are named by that value.
NoClient == [socket |-> "null", dropped |-> FALSE, outbox |-> <<>>, seen |-> 0, uuids |-> 0,
             rendered |-> <<>>, loads |-> [s \in SocketStates |-> NoLoad]]

\* No request has failed and none has been answered; the clock is calm.
ExtInit ==
  /\ env = CalmEnv
  /\ failure = NoError
  /\ response = NoResponse
  /\ client = NoClient

\* What findOne / findById return when no document matches (null).
NoMember == [id |-> 0, userId |-> 0, role |-> "NONE"]

\* Exceptions of utils/appError as thrown by the services, and the success value.
Ok(msg) == [exc |-> "none", message |-> msg]
BadRequestException(msg) == [exc |-> "BadRequestException", message |-> msg]
NotFoundException(msg) == [exc |-> "NotFoundException", message |-> msg]
InternalServerException(msg) == [exc |-> "InternalServerException", message |-> msg]
NoResult == [exc |-> "pending", message |-> ""]

IdleCall ==
  [op |-> "none", pc |-> "idle", ws |-> "none", actor |-> 0, target |-> 0, arg |-> "",
   req |-> NoMember, tgt |-> NoMember, vNew |-> NoMember, vOld |-> NoMember,
   err |-> "", rbErr |-> "", result |-> NoResult,
   pre |-> [members |-> {}, owner |-> 0, currentWorkspace |-> [u \in Users |-> "null"]]]

\* The locals of a call that has just been received; pre is the store as the
\* call found it (kept to state what the call changed).
NewCall(op, ws, actor, target, arg) ==
  [IdleCall EXCEPT !.op = op, !.ws = ws, !.actor = actor, !.target = target, !.arg = arg,
                   !.pre = [members |-> members, owner |-> owner,
                            currentWorkspace |-> currentWorkspace]]

\* The call ends: the service throws exc or returns its message.
Finish(c, res) == [c EXCEPT !.pc = "done", !.result = res]

(* ------------------------- Membership Store ---------------------------- *)
\* MemberModel.findOne({userId, workspaceId}): a matching document, or null.
FindOne(userId) ==
  LET found == {m \in members : m.userId = userId}
  IN  IF found = {} THEN {NoMember} ELSE found

\* MemberModel.findById(id)
FindById(id) ==
  IF \E m \in members : m.id = id THEN CHOOSE m \in members : m.id = id ELSE NoMember

\* MemberModel.findByIdAndUpdate(id, {role}): no document, no change, no error.
UpdateRole(id, role) ==
  {IF m.id = id THEN [m EXCEPT !.role = role] ELSE m : m \in members}

\* MemberModel.findByIdAndDelete(id)
DeleteById(id) == {m \in members : m.id # id}

AllIdle == \A p \in Procs : calls[p].pc = "idle"

(* ------------------------------ Init ----------------------------------- *)
\* No direct evaluation of the evaluator is under way.
ProbeIdle == [requestingRole |-> "", targetRole |-> "", levelled |-> FALSE,
              requestingLevel |-> 0, targetLevel |-> 0, evaluated |-> FALSE, result |-> FALSE]

\* registerUserService: the creator's workspace, its OWNER Member and the
\* creator's currentWorkspace pointer; every other user registered with a
\* workspace of its own.
InitStore ==
  /\ members = {[id |-> 1, userId |-> 1, role |-> "OWNER"]}
  /\ owner = 1
  /\ currentWorkspace = [u \in Users |-> IF u = 1 THEN W ELSE "other"]
  /\ nextId = 2
  /\ calls = [p \in Procs |-> IdleCall]
  /\ ncalls = 0

Init == InitStore /\ probe = ProbeIdle /\ ChatInitOver(<<>>) /\ mongo = "up" /\ ExtInit

(* ------------------------- removeMemberService ------------------------- *)
\* The request arrives and WorkspaceModel.findById(workspaceId) answers.
removeMemberService(p, workspaceId, memberId, requestingUserId) ==
  /\ calls[p].pc = "idle"
  /\ ncalls' = ncalls + 1
  /\ LET c == NewCall("removeMember", workspaceId, requestingUserId, memberId, "")
     IN  calls' = [calls EXCEPT ![p] =
           IF workspaceId \notin workspaces
           THEN Finish(c, NotFoundException("Workspace not found"))
           ELSE [c EXCEPT !.pc = "rm_target"]]
  /\ UNCHANGED <<members, owner, currentWorkspace, nextId, probe, chatVars, extVars>>

\* Mutant: the "cannot remove the workspace owner" test is missing.
removeMember_findTarget_NoOwnerTest(p) ==
  /\ calls[p].pc = "rm_target"
  /\ \E m \in FindOne(calls[p].target) :
       calls' = [calls EXCEPT ![p] =
         IF m = NoMember
         THEN Finish(@, NotFoundException("Member not found in the workspace"))
         ELSE [@ EXCEPT !.tgt = m, !.pc = "rm_req"]]
  /\ UNCHANGED <<members, owner, currentWorkspace, nextId, ncalls, probe, chatVars, extVars>>

\* memberToRemove = findOne(memberId); not found; owner test.
removeMember_findTarget(p) ==
  /\ calls[p].pc = "rm_target"
  /\ \E m \in FindOne(calls[p].target) :
       calls' = [calls EXCEPT ![p] =
         IF m = NoMember
         THEN Finish(@, NotFoundException("Member not found in the workspace"))
         ELSE IF m.role = "OWNER"
         THEN Finish([@ EXCEPT !.tgt = m],
                     BadRequestException("Cannot remove the workspace owner"))
         ELSE [@ EXCEPT !.tgt = m, !.pc = "rm_req"]]
  /\ UNCHANGED <<members, owner, currentWorkspace, nextId, ncalls, probe, chatVars, extVars>>

\* Mutant: the hierarchy test is missing.
removeMember_findRequester_NoHierarchyTest(p) ==
  /\ calls[p].pc = "rm_req"
  /\ \E m \in FindOne(calls[p].actor) :
       calls' = [calls EXCEPT ![p] =
         IF m = NoMember
         THEN Finish(@, BadRequestException("You are not a member of this workspace"))
         ELSE [@ EXCEPT !.req = m, !.pc = "rm_delete"]]
  /\ UNCHANGED <<members, owner, currentWorkspace, nextId, ncalls, probe, chatVars, extVars>>

\* Mutant: a requester without a Member record is let through.
removeMember_findRequester_NoMemberTest(p) ==
  /\ calls[p].pc = "rm_req"
  /\ \E m \in FindOne(calls[p].actor) :
       calls' = [calls EXCEPT ![p] =
         IF m # NoMember /\ ~canModifyRole(m.role, calls[p].tgt.role)
         THEN Finish([@ EXCEPT !.req = m],
                     BadRequestException("Users with role " \o m.role \o " cannot remove users with role "
                                         \o calls[p].tgt.role))
         ELSE [@ EXCEPT !.req = m, !.pc = "rm_delete"]]
  /\ UNCHANGED <<members, owner, currentWorkspace, nextId, ncalls, probe, chatVars, extVars>>

\* requestingMember = findOne(requestingUserId); not a member; canModifyRole test.
removeMember_findRequester(p) ==
  /\ calls[p].pc = "rm_req"
  /\ \E m \in FindOne(calls[p].actor) :
       calls' = [calls EXCEPT ![p] =
         IF m = NoMember
         THEN Finish(@, BadRequestException("You are not a member of this workspace"))
         ELSE IF ~canModifyRole(m.role, calls[p].tgt.role)
         THEN Finish([@ EXCEPT !.req = m],
                     BadRequestException("Users with role " \o m.role \o " cannot remove users with role "
                                         \o calls[p].tgt.role))
         ELSE [@ EXCEPT !.req = m, !.pc = "rm_delete"]]
  /\ UNCHANGED <<members, owner, currentWorkspace, nextId, ncalls, probe, chatVars, extVars>>

\* Variant: the removal also clears the removed user's current-workspace
\* pointer, as leaveWorkspace does.
removeMember_delete_ClearsPointer(p) ==
  /\ calls[p].pc = "rm_delete"
  /\ members' = DeleteById(calls[p].tgt.id)
  /\ currentWorkspace' = [currentWorkspace EXCEPT ![calls[p].tgt.userId] = "null"]
  /\ calls' = [calls EXCEPT ![p] = Finish(@, Ok("Member removed successfully"))]
  /\ UNCHANGED <<owner, nextId, ncalls, probe, chatVars, extVars>>

\* MemberModel.findByIdAndDelete(memberToRemove._id) and the success return.
removeMember_delete(p) ==
  /\ calls[p].pc = "rm_delete"
  /\ members' = DeleteById(calls[p].tgt.id)
  /\ calls' = [calls EXCEPT ![p] = Finish(@, Ok("Member removed successfully"))]
  /\ UNCHANGED <<owner, currentWorkspace, nextId, ncalls, probe, chatVars, extVars>>

(* --------------------- joinWorkspaceByInviteService -------------------- *)
\* The request arrives and WorkspaceModel.findOne({inviteCode, inviteCodeActive})
\* answers. inviteCodeExpiresAt keeps its schema default, null: no expiry.
joinWorkspaceByInviteService(p, userId, inviteCode) ==
  /\ calls[p].pc = "idle"
  /\ ncalls' = ncalls + 1
  /\ LET c == NewCall("joinWorkspaceByInvite", W, userId, userId, inviteCode)
     IN  calls' = [calls EXCEPT ![p] =
           IF inviteCode # InviteCode
           THEN Finish(c, NotFoundException("Invalid or expired invite code"))
           ELSE [c EXCEPT !.pc = "jn_exist"]]
  /\ UNCHANGED <<members, owner, currentWorkspace, nextId, probe, chatVars, extVars>>

\* Mutant: an existing Member record does not stop the join.
joinWorkspace_findExisting_NoExistingTest(p) ==
  /\ calls[p].pc = "jn_exist"
  /\ calls' = [calls EXCEPT ![p].pc = "jn_save"]
  /\ UNCHANGED <<members, owner, currentWorkspace, nextId, ncalls, probe, chatVars, extVars>>

\* existingMember = findOne(userId); already a member.
joinWorkspace_findExisting(p) ==
  /\ calls[p].pc = "jn_exist"
  /\ \E m \in FindOne(calls[p].actor) :
       calls' = [calls EXCEPT ![p] =
         IF m # NoMember
         THEN Finish([@ EXCEPT !.req = m],
                     BadRequestException("You are already a member of this workspace"))
         ELSE [@ EXCEPT !.pc = "jn_save"]]
  /\ UNCHANGED <<members, owner, currentWorkspace, nextId, ncalls, probe, chatVars, extVars>>

\* new MemberModel({userId, workspaceId, role: MEMBER}).save()
joinWorkspace_save(p) ==
  /\ calls[p].pc = "jn_save"
  /\ nextId <= MaxMemberId
  /\ members' = members \cup {[id |-> nextId, userId |-> calls[p].actor, role |-> "MEMBER"]}
  /\ nextId' = nextId + 1
  /\ calls' = [calls EXCEPT ![p] = Finish(@, Ok("Successfully joined the workspace"))]
  /\ UNCHANGED <<owner, currentWorkspace, ncalls, probe, chatVars, extVars>>

(* ------------------------ leaveWorkspaceService ------------------------ *)
leaveWorkspaceService(p, workspaceId, userId) ==
  /\ calls[p].pc = "idle"
  /\ ncalls' = ncalls + 1
  /\ LET c == NewCall("leaveWorkspace", workspaceId, userId, userId, "")
     IN  calls' = [calls EXCEPT ![p] =
           IF workspaceId \notin workspaces
           THEN Finish(c, NotFoundException("Workspace not found"))
           ELSE [c EXCEPT !.pc = "lv_member"]]
  /\ UNCHANGED <<members, owner, currentWorkspace, nextId, probe, chatVars, extVars>>

\* Mutant: the "owner cannot leave" test is missing.
leaveWorkspace_findMember_NoOwnerTest(p) ==
  /\ calls[p].pc = "lv_member"
  /\ \E m \in FindOne(calls[p].actor) :
       calls' = [calls EXCEPT ![p] =
         IF m = NoMember
         THEN Finish(@, NotFoundException("You are not a member of this workspace"))
         ELSE [@ EXCEPT !.req = m, !.pc = "lv_user"]]
  /\ UNCHANGED <<members, owner, currentWorkspace, nextId, ncalls, probe, chatVars, extVars>>

\* member = findOne(userId); not a member; the owner cannot leave.
leaveWorkspace_findMember(p) ==
  /\ calls[p].pc = "lv_member"
  /\ \E m \in FindOne(calls[p].actor) :
       calls' = [calls EXCEPT ![p] =
         IF m = NoMember
         THEN Finish(@, NotFoundException("You are not a member of this workspace"))
         ELSE IF m.role = "OWNER"
         THEN Finish([@ EXCEPT !.req = m],
                     BadRequestException("As the workspace owner, you cannot leave the workspace. Please transfer ownership first."))
         ELSE [@ EXCEPT !.req = m, !.pc = "lv_user"]]
  /\ UNCHANGED <<members, owner, currentWorkspace, nextId, ncalls, probe, chatVars, extVars>>

\* Mutant: the pointer is cleared whatever workspace it names.
leaveWorkspace_findUser_AlwaysClears(p) ==
  /\ calls[p].pc = "lv_user"
  /\ calls' = [calls EXCEPT ![p].pc = "lv_usersave"]
  /\ UNCHANGED <<members, owner, currentWorkspace, nextId, ncalls, probe, chatVars, extVars>>

\* user = UserModel.findById(userId); does the pointer name this workspace?
leaveWorkspace_findUser(p) ==
  /\ calls[p].pc = "lv_user"
  /\ calls' = [calls EXCEPT ![p].pc =
       IF currentWorkspace[calls[p].actor] = calls[p].ws THEN "lv_usersave" ELSE "lv_delete"]
  /\ UNCHANGED <<members, owner, currentWorkspace, nextId, ncalls, probe, chatVars, extVars>>

\* user.currentWorkspace = null; user.save()
leaveWorkspace_saveUser(p) ==
  /\ calls[p].pc = "lv_usersave"
  /\ currentWorkspace' = [currentWorkspace EXCEPT ![calls[p].actor] = "null"]
  /\ calls' = [calls EXCEPT ![p].pc = "lv_delete"]
  /\ UNCHANGED <<members, owner, nextId, ncalls, probe, chatVars, extVars>>

\* MemberModel.findByIdAndDelete(member._id) and the success return.
leaveWorkspace_delete(p) ==
  /\ calls[p].pc = "lv_delete"
  /\ members' = DeleteById(calls[p].req.id)
  /\ calls' = [calls EXCEPT ![p] = Finish(@, Ok("Successfully left the workspace"))]
  /\ UNCHANGED <<owner, currentWorkspace, nextId, ncalls, probe, chatVars, extVars>>

(* ----------------------- transferOwnershipService ---------------------- *)
\* transferOwnershipController: any Error the service throws is thrown again
\* as a BadRequestException carrying the same message.
transferOwnershipController(res) ==
  IF res.exc = "none" THEN res
  ELSE BadRequestException(IF res.message # "" THEN res.message
                           ELSE "Failed to transfer ownership")

\* Messages of the errors the database driver throws.
WriteError == "write failed"
RollbackError == "rollback write failed"

\* Mutant: the error of the rollback replaces the original one.
TransferFailure_RollbackErrorWins(error, rollbackError) ==
  BadRequestException(IF rollbackError # "" THEN rollbackError ELSE error)

\* The catch block's final throw: the message of the error caught first.
TransferFailure(error, rollbackError) == BadRequestException(error)

transferOwnershipService(p, workspaceId, newOwnerId, currentUserId) ==
  /\ calls[p].pc = "idle"
  /\ ncalls' = ncalls + 1
  /\ LET c == NewCall("transferOwnership", workspaceId, currentUserId, newOwnerId, "")
     IN  calls' = [calls EXCEPT ![p] =
           IF workspaceId \notin workspaces
           THEN Finish(c, transferOwnershipController(NotFoundException("Workspace not found")))
           ELSE [c EXCEPT !.pc = "tr_cur"]]
  /\ UNCHANGED <<members, owner, currentWorkspace, nextId, probe, chatVars, extVars>>

\* currentOwner = findOne(currentUserId); must exist and hold OWNER.
transferOwnership_findCurrentOwner(p) ==
  /\ calls[p].pc = "tr_cur"
  /\ \E m \in FindOne(calls[p].actor) :
       calls' = [calls EXCEPT ![p] =
         IF m = NoMember \/ m.role # "OWNER"
         THEN Finish([@ EXCEPT !.req = m], transferOwnershipController(
                BadRequestException("Only the workspace owner can transfer ownership")))
         ELSE [@ EXCEPT !.req = m, !.pc = "tr_new"]]
  /\ UNCHANGED <<members, owner, currentWorkspace, nextId, ncalls, probe, chatVars, extVars>>

\* Mutant: any member may receive ownership.
transferOwnership_findNewOwner_AnyRole(p) ==
  /\ calls[p].pc = "tr_new"
  /\ \E m \in FindOne(calls[p].target) :
       calls' = [calls EXCEPT ![p] =
         IF m = NoMember
         THEN Finish(@, transferOwnershipController(
                NotFoundException("New owner must be a member of the workspace")))
         ELSE [@ EXCEPT !.tgt = m, !.pc = "tr_w1"]]
  /\ UNCHANGED <<members, owner, currentWorkspace, nextId, ncalls, probe, chatVars, extVars>>

\* newOwner = findOne(newOwnerId); must exist and hold ADMIN or CO_OWNER.
transferOwnership_findNewOwner(p) ==
  /\ calls[p].pc = "tr_new"
  /\ \E m \in FindOne(calls[p].target) :
       calls' = [calls EXCEPT ![p] =
         IF m = NoMember
         THEN Finish(@, transferOwnershipController(
                NotFoundException("New owner must be a member of the workspace")))
         ELSE IF m.role # "ADMIN" /\ m.role # "CO_OWNER"
         THEN Finish([@ EXCEPT !.tgt = m], transferOwnershipController(
                BadRequestException("Ownership can only be transferred to an admin or co-owner")))
         ELSE [@ EXCEPT !.tgt = m, !.pc = "tr_w1"]]
  /\ UNCHANGED <<members, owner, currentWorkspace, nextId, ncalls, probe, chatVars, extVars>>

\* A write of the try block throws: the catch block starts the rollback.
Caught(p, message) == [calls EXCEPT ![p].err = message, ![p].pc = "rb_1"]

\* WorkspaceModel.findByIdAndUpdate(workspaceId, {owner: newOwner.userId})
transferOwnership_writeWorkspaceOwner(p) ==
  /\ calls[p].pc = "tr_w1"
  /\ \E thrown \in BOOLEAN :
       IF thrown
       THEN calls' = Caught(p, WriteError) /\ UNCHANGED owner
       ELSE owner' = calls[p].tgt.userId /\ calls' = [calls EXCEPT ![p].pc = "tr_w2"]
  /\ UNCHANGED <<members, currentWorkspace, nextId, ncalls, probe, chatVars, extVars>>

\* MemberModel.findByIdAndUpdate(newOwner._id, {role: OWNER})
transferOwnership_writeNewOwnerRole(p) ==
  /\ calls[p].pc = "tr_w2"
  /\ \E thrown \in BOOLEAN :
       IF thrown
       THEN calls' = Caught(p, WriteError) /\ UNCHANGED members
       ELSE members' = UpdateRole(calls[p].tgt.id, "OWNER")
            /\ calls' = [calls EXCEPT ![p].pc = "tr_w3"]
  /\ UNCHANGED <<owner, currentWorkspace, nextId, ncalls, probe, chatVars, extVars>>

\* MemberModel.findByIdAndUpdate(currentOwner._id, {role: MEMBER})
transferOwnership_writeOldOwnerRole(p) ==
  /\ calls[p].pc = "tr_w3"
  /\ \E thrown \in BOOLEAN :
       IF thrown
       THEN calls' = Caught(p, WriteError) /\ UNCHANGED members
       ELSE members' = UpdateRole(calls[p].req.id, "MEMBER")
            /\ calls' = [calls EXCEPT ![p].pc = "tr_v1"]
  /\ UNCHANGED <<owner, currentWorkspace, nextId, ncalls, probe, chatVars, extVars>>

\* verifyNewOwner = MemberModel.findById(newOwner._id)
transferOwnership_verifyNewOwner(p) ==
  /\ calls[p].pc = "tr_v1"
  /\ calls' = [calls EXCEPT ![p].vNew = FindById(calls[p].tgt.id), ![p].pc = "tr_v2"]
  /\ UNCHANGED <<members, owner, currentWorkspace, nextId, ncalls, probe, chatVars, extVars>>

\* verifyOldOwner = MemberModel.findById(currentOwner._id)
transferOwnership_verifyOldOwner(p) ==
  /\ calls[p].pc = "tr_v2"
  /\ calls' = [calls EXCEPT ![p].vOld = FindById(calls[p].req.id), ![p].pc = "tr_v3"]
  /\ UNCHANGED <<members, owner, currentWorkspace, nextId, ncalls, probe, chatVars, extVars>>

\* The three-way test of the verification.
VerificationPasses(verifyNewOwner, verifyOldOwner, verifyWorkspaceOwner, newOwner) ==
  /\ verifyNewOwner # NoMember
  /\ verifyOldOwner # NoMember
  /\ verifyNewOwner.role = "OWNER"
  /\ verifyOldOwner.role = "MEMBER"
  /\ verifyWorkspaceOwner = newOwner.userId

\* verifyWorkspace = WorkspaceModel.findById(workspaceId); the test; the
\* success return or the throw of "Ownership transfer failed verification".
transferOwnership_verifyWorkspace(p) ==
  /\ calls[p].pc = "tr_v3"
  /\ calls' =
       IF VerificationPasses(calls[p].vNew, calls[p].vOld, owner, calls[p].tgt)
       THEN [calls EXCEPT ![p] = Finish(@, transferOwnershipController(
               Ok("Workspace ownership transferred successfully")))]
       ELSE Caught(p, "Ownership transfer failed verification")
  /\ UNCHANGED <<members, owner, currentWorkspace, nextId, ncalls, probe, chatVars, extVars>>

\* The rollback's own catch: the rollback error is logged, the rest of the
\* rollback is skipped, and the catch block throws its BadRequestException.
RollbackFailed(p) ==
  [calls EXCEPT ![p] = Finish([@ EXCEPT !.rbErr = RollbackError],
     transferOwnershipController(TransferFailure(@.err, RollbackError)))]

\* rollback: WorkspaceModel.findByIdAndUpdate(workspaceId, {owner: currentOwner.userId})
transferOwnership_rollbackWorkspaceOwner(p) ==
  /\ calls[p].pc = "rb_1"
  /\ \E thrown \in BOOLEAN :
       IF thrown
       THEN calls' = RollbackFailed(p) /\ UNCHANGED owner
       ELSE owner' = calls[p].req.userId /\ calls' = [calls EXCEPT ![p].pc = "rb_2"]
  /\ UNCHANGED <<members, currentWorkspace, nextId, ncalls, probe, chatVars, extVars>>

\* rollback: MemberModel.findByIdAndUpdate(currentOwner._id, {role: OWNER})
transferOwnership_rollbackOldOwnerRole(p) ==
  /\ calls[p].pc = "rb_2"
  /\ \E thrown \in BOOLEAN :
       IF thrown
       THEN calls' = RollbackFailed(p) /\ UNCHANGED members
       ELSE members' = UpdateRole(calls[p].req.id, "OWNER")
            /\ calls' = [calls EXCEPT ![p].pc = "rb_3"]
  /\ UNCHANGED <<owner, currentWorkspace, nextId, ncalls, probe, chatVars, extVars>>

\* rollback: MemberModel.findByIdAndUpdate(newOwner._id, {role: MEMBER}); then
\* the catch block throws its BadRequestException.
transferOwnership_rollbackNewOwnerRole(p) ==
  /\ calls[p].pc = "rb_3"
  /\ \E thrown \in BOOLEAN :
       IF thrown
       THEN calls' = RollbackFailed(p) /\ UNCHANGED members
       ELSE members' = UpdateRole(calls[p].tgt.id, "MEMBER")
            /\ calls' = [calls EXCEPT ![p] = Finish(@,
                 transferOwnershipController(TransferFailure(@.err, "")))]
  /\ UNCHANGED <<owner, currentWorkspace, nextId, ncalls, probe, chatVars, extVars>>

(* ----------------------- promoteToCoOwnerService ----------------------- *)
\* role.name.toLowerCase() on the two role names the refusal message can carry.
toLowerCase(name) ==
  CASE name = "OWNER" -> "owner"
    [] name = "CO_OWNER" -> "co_owner"
    [] name = "ADMIN" -> "admin"
    [] name = "MEMBER" -> "member"
    [] OTHER -> name

\* Mutant: the confirmation text is not compared with the expected phrase.
promoteToCoOwnerService_NoConfirmation(p, workspaceId, memberId, requestingUserId, confirmationText) ==
  /\ calls[p].pc = "idle"
  /\ ncalls' = ncalls + 1
  /\ LET c == NewCall("promoteToCoOwner", workspaceId, requestingUserId, memberId,
                      confirmationText)
     IN  calls' = [calls EXCEPT ![p] =
           IF workspaceId \notin workspaces
           THEN Finish(c, NotFoundException("Workspace not found"))
           ELSE [c EXCEPT !.pc = "pr_req"]]
  /\ UNCHANGED <<members, owner, currentWorkspace, nextId, probe, chatVars, extVars>>

\* The confirmation test, then WorkspaceModel.findById(workspaceId).
promoteToCoOwnerService(p, workspaceId, memberId, requestingUserId, confirmationText) ==
  /\ calls[p].pc = "idle"
  /\ ncalls' = ncalls + 1
  /\ LET c == NewCall("promoteToCoOwner", workspaceId, requestingUserId, memberId,
                      confirmationText)
     IN  calls' = [calls EXCEPT ![p] =
           IF confirmationText # expectedConfirmation
           THEN Finish(c, BadRequestException(
                  "Please confirm that you understand the implications of promoting to co-owner"))
           ELSE IF workspaceId \notin workspaces
           THEN Finish(c, NotFoundException("Workspace not found"))
           ELSE [c EXCEPT !.pc = "pr_req"]]
  /\ UNCHANGED <<members, owner, currentWorkspace, nextId, probe, chatVars, extVars>>

\* requestingMember = findOne(requestingUserId); must exist and hold OWNER.
promoteToCoOwner_findRequester(p) ==
  /\ calls[p].pc = "pr_req"
  /\ \E m \in FindOne(calls[p].actor) :
       calls' = [calls EXCEPT ![p] =
         IF m = NoMember
         THEN Finish(@, BadRequestException("You are not a member of this workspace"))
         ELSE IF m.role # "OWNER"
         THEN Finish([@ EXCEPT !.req = m], BadRequestException(
                "Only the workspace owner can promote members to co-owner"))
         ELSE [@ EXCEPT !.req = m, !.pc = "pr_target"]]
  /\ UNCHANGED <<members, owner, currentWorkspace, nextId, ncalls, probe, chatVars, extVars>>

\* memberToPromote = findOne(memberId); must exist and hold neither OWNER nor CO_OWNER.
promoteToCoOwner_findTarget(p) ==
  /\ calls[p].pc = "pr_target"
  /\ \E m \in FindOne(calls[p].target) :
       calls' = [calls EXCEPT ![p] =
         IF m = NoMember
         THEN Finish(@, NotFoundException("Member not found"))
         ELSE IF m.role = "OWNER" \/ m.role = "CO_OWNER"
         THEN Finish([@ EXCEPT !.tgt = m], BadRequestException(
                "Cannot promote " \o toLowerCase(m.role) \o " to co-owner"))
         ELSE [@ EXCEPT !.tgt = m, !.pc = "pr_write"]]
  /\ UNCHANGED <<members, owner, currentWorkspace, nextId, ncalls, probe, chatVars, extVars>>

\* MemberModel.findByIdAndUpdate(memberToPromote._id, {role: CO_OWNER})
promoteToCoOwner_write(p) ==
  /\ calls[p].pc = "pr_write"
  /\ members' = UpdateRole(calls[p].tgt.id, "CO_OWNER")
  /\ calls' = [calls EXCEPT ![p] = Finish(@, Ok("Member successfully promoted to co-owner"))]
  /\ UNCHANGED <<owner, currentWorkspace, nextId, ncalls, probe, chatVars, extVars>>

(* ----------------------- changeMemberRoleService ----------------------- *)
changeMemberRoleService(p, workspaceId, memberId, newRoleName, requestingUserId) ==
  /\ calls[p].pc = "idle"
  /\ ncalls' = ncalls + 1
  /\ LET c == NewCall("changeMemberRole", workspaceId, requestingUserId, memberId, newRoleName)
     IN  calls' = [calls EXCEPT ![p] =
           IF workspaceId \notin workspaces
           THEN Finish(c, NotFoundException("Workspace not found"))
           ELSE [c EXCEPT !.pc = "ch_req"]]
  /\ UNCHANGED <<members, owner, currentWorkspace, nextId, probe, chatVars, extVars>>

\* requestingMember = findOne(requestingUserId); must exist.
changeMemberRole_findRequester(p) ==
  /\ calls[p].pc = "ch_req"
  /\ \E m \in FindOne(calls[p].actor) :
       calls' = [calls EXCEPT ![p] =
         IF m = NoMember
         THEN Finish(@, BadRequestException("You are not a member of this workspace"))
         ELSE [@ EXCEPT !.req = m, !.pc = "ch_target"]]
  /\ UNCHANGED <<members, owner, currentWorkspace, nextId, ncalls, probe, chatVars, extVars>>

\* Mutant: the acting role is not tested against the requested role.
changeMemberRole_checks_NoNewRoleTest(requestingRole, targetRole, newRoleName) ==
  IF ~canModifyRole(requestingRole, targetRole)
  THEN BadRequestException("Users with role " \o requestingRole
                           \o " cannot modify users with role " \o targetRole)
  ELSE IF newRoleName \notin Roles
  THEN InternalServerException("Role " \o newRoleName \o " not found")
  ELSE IF newRoleName = "CO_OWNER"
  THEN BadRequestException(
         "Please use the dedicated promoteToCoOwner endpoint for co-owner promotion")
  ELSE Ok("")

\* Mutant: a requested role of CO_OWNER is not refused.
changeMemberRole_checks_NoCoOwnerRefusal(requestingRole, targetRole, newRoleName) ==
  IF ~canModifyRole(requestingRole, targetRole)
  THEN BadRequestException("Users with role " \o requestingRole
                           \o " cannot modify users with role " \o targetRole)
  ELSE IF ~canModifyRole(requestingRole, newRoleName)
  THEN BadRequestException("Users with role " \o requestingRole \o " cannot assign the "
                           \o newRoleName \o " role")
  ELSE IF newRoleName \notin Roles
  THEN InternalServerException("Role " \o newRoleName \o " not found")
  ELSE Ok("")

\* What follows the load of memberToChange: the two canModifyRole tests, the
\* lookup of the new role among the seeded roles, the CO_OWNER refusal.
changeMemberRole_checks(requestingRole, targetRole, newRoleName) ==
  IF ~canModifyRole(requestingRole, targetRole)
  THEN BadRequestException("Users with role " \o requestingRole
                           \o " cannot modify users with role " \o targetRole)
  ELSE IF ~canModifyRole(requestingRole, newRoleName)
  THEN BadRequestException("Users with role " \o requestingRole \o " cannot assign the "
                           \o newRoleName \o " role")
  ELSE IF newRoleName \notin Roles
  THEN InternalServerException("Role " \o newRoleName \o " not found")
  ELSE IF newRoleName = "CO_OWNER"
  THEN BadRequestException(
         "Please use the dedicated promoteToCoOwner endpoint for co-owner promotion")
  ELSE Ok("")

\* memberToChange = findOne(memberId); must exist; the checks.
changeMemberRole_findTarget(p) ==
  /\ calls[p].pc = "ch_target"
  /\ \E m \in FindOne(calls[p].target) :
       calls' = [calls EXCEPT ![p] =
         IF m = NoMember
         THEN Finish(@, NotFoundException("Member not found"))
         ELSE LET res == changeMemberRole_checks(@.req.role, m.role, @.arg)
              IN  IF res.exc # "none" THEN Finish([@ EXCEPT !.tgt = m], res)
                  ELSE [@ EXCEPT !.tgt = m, !.pc = "ch_write"]]
  /\ UNCHANGED <<members, owner, currentWorkspace, nextId, ncalls, probe, chatVars, extVars>>

\* MemberModel.findByIdAndUpdate(memberToChange._id, {role: newRole._id})
changeMemberRole_write(p) ==
  /\ calls[p].pc = "ch_write"
  /\ members' = UpdateRole(calls[p].tgt.id, calls[p].arg)
  /\ calls' = [calls EXCEPT ![p] = Finish(@, Ok("Member role updated to " \o @.arg))]
  /\ UNCHANGED <<owner, currentWorkspace, nextId, ncalls, probe, chatVars, extVars>>

(* ------------------------- requests and steps -------------------------- *)
\* The response has been sent; the slot is free for the next request.
Respond(p) ==
  /\ calls[p].pc = "done"
  /\ calls' = [calls EXCEPT ![p] = IdleCall]
  /\ UNCHANGED <<members, owner, currentWorkspace, nextId, ncalls, probe, chatVars, extVars>>

\* A request arrives in slot p.
Request(p) ==
  \/ \E ws \in WorkspaceIds, t \in Users, a \in Users : removeMemberService(p, ws, t, a)
  \/ \E u \in Users, code \in InviteCodes : joinWorkspaceByInviteService(p, u, code)
  \/ \E ws \in WorkspaceIds, u \in Users : leaveWorkspaceService(p, ws, u)
  \/ \E ws \in WorkspaceIds, t \in Users, a \in Users : transferOwnershipService(p, ws, t, a)
  \/ \E ws \in WorkspaceIds, t \in Users, a \in Users, txt \in ConfirmationTexts :
       promoteToCoOwnerService(p, ws, t, a, txt)
  \/ \E ws \in WorkspaceIds, t \in Users, r \in RoleNames, a \in Users :
       changeMemberRoleService(p, ws, t, r, a)

\* The database answers the operation the call in slot p is waiting for.
Step(p) ==
  \/ removeMember_findTarget(p)
  \/ removeMember_findRequester(p)
  \/ removeMember_delete(p)
  \/ joinWorkspace_findExisting(p)
  \/ joinWorkspace_save(p)
  \/ leaveWorkspace_findMember(p)
  \/ leaveWorkspace_findUser(p)
  \/ leaveWorkspace_saveUser(p)
  \/ leaveWorkspace_delete(p)
  \/ transferOwnership_findCurrentOwner(p)
  \/ transferOwnership_findNewOwner(p)
  \/ transferOwnership_writeWorkspaceOwner(p)
  \/ transferOwnership_writeNewOwnerRole(p)
  \/ transferOwnership_writeOldOwnerRole(p)
  \/ transferOwnership_verifyNewOwner(p)
  \/ transferOwnership_verifyOldOwner(p)
  \/ transferOwnership_verifyWorkspace(p)
  \/ transferOwnership_rollbackWorkspaceOwner(p)
  \/ transferOwnership_rollbackOldOwnerRole(p)
  \/ transferOwnership_rollbackNewOwnerRole(p)
  \/ promoteToCoOwner_findRequester(p)
  \/ promoteToCoOwner_findTarget(p)
  \/ promoteToCoOwner_write(p)
  \/ changeMemberRole_findRequester(p)
  \/ changeMemberRole_findTarget(p)
  \/ changeMemberRole_write(p)
  \/ Respond(p)

\* Calls run one at a time to completion: a request is taken only when no
\* call is in flight.
Next ==
  \/ (AllIdle /\ ncalls < MaxCalls /\ Request(1))
  \/ Step(1)

Spec == Init /\ [][Next]_vars

(* ------------- concurrent transfers on one workspace ------------------- *)
\* A workspace as the sequential operations leave it: the creator is OWNER and
\* workspace.owner, every other user has joined (MEMBER) and may have been made
\* ADMIN by changeMemberRole or CO_OWNER by promoteToCoOwner.
RaceInit ==
  /\ \E roleOf \in [Users \ {1} -> {"MEMBER", "ADMIN", "CO_OWNER"}] :
       members = {[id |-> 1, userId |-> 1, role |-> "OWNER"]}
                 \cup {[id |-> u, userId |-> u, role |-> roleOf[u]] : u \in Users \ {1}}
  /\ owner = 1
  /\ currentWorkspace = [u \in Users |-> IF u = 1 THEN W ELSE "other"]
  /\ nextId = NumUsers + 1
  /\ calls = [p \in Procs |-> IdleCall]
  /\ ncalls = 0
  /\ probe = ProbeIdle
  /\ ChatInitOver(<<>>)
  /\ mongo = "up"
  /\ ExtInit

\* transferOwnership requests arrive in any slot while others are in flight;
\* the event loop runs one database answer at a time, in any order.
RaceNext ==
  \E p \in Procs :
    \/ (ncalls < MaxRaceCalls
        /\ \E ws \in WorkspaceIds, t \in Users, a \in Users : transferOwnershipService(p, ws, t, a))
    \/ transferOwnership_findCurrentOwner(p)
    \/ transferOwnership_findNewOwner(p)
    \/ transferOwnership_writeWorkspaceOwner(p)
    \/ transferOwnership_writeNewOwnerRole(p)
    \/ transferOwnership_writeOldOwnerRole(p)
    \/ transferOwnership_verifyNewOwner(p)
    \/ transferOwnership_verifyOldOwner(p)
    \/ transferOwnership_verifyWorkspace(p)
    \/ transferOwnership_rollbackWorkspaceOwner(p)
    \/ transferOwnership_rollbackOldOwnerRole(p)
    \/ transferOwnership_rollbackNewOwnerRole(p)
    \/ Respond(p)

TransferRaceSpec == RaceInit /\ [][RaceNext]_vars

(* ------- concurrent role changes, removals and promotions -------------- *)
\* changeMemberRole, removeMember and promoteToCoOwner requests arrive in any
\* slot while others are in flight (no transfer among them); the event loop
\* runs one database answer at a time, in any order.
RoleRaceNext ==
  \E p \in Procs :
    \/ (ncalls < MaxRoleRaceCalls
        /\ \E ws \in {W}, t \in Users, a \in Users : removeMemberService(p, ws, t, a))
    \/ (ncalls < MaxRoleRaceCalls
        /\ \E ws \in {W}, t \in Users, a \in Users, txt \in ConfirmationTexts :
             promoteToCoOwnerService(p, ws, t, a, txt))
    \/ (ncalls < MaxRoleRaceCalls
        /\ \E ws \in {W}, t \in Users, r \in RoleNames, a \in Users :
             changeMemberRoleService(p, ws, t, r, a))
    \/ removeMember_findTarget(p)
    \/ removeMember_findRequester(p)
    \/ removeMember_delete(p)
    \/ promoteToCoOwner_findRequester(p)
    \/ promoteToCoOwner_findTarget(p)
    \/ promoteToCoOwner_write(p)
    \/ changeMemberRole_findRequester(p)
    \/ changeMemberRole_findTarget(p)
    \/ changeMemberRole_write(p)
    \/ Respond(p)

RoleRaceSpec == RaceInit /\ [][RoleRaceNext]_vars

(* ------- concurrent joins, leaves, removals and transfers -------------- *)
\* The workspace after user 2 joined it (and may have been made ADMIN or
\* CO_OWNER); user 3 holds the invite code and has not joined.
LifecycleRaceInit ==
  /\ \E role \in {"MEMBER", "ADMIN", "CO_OWNER"} :
       members = {[id |-> 1, userId |-> 1, role |-> "OWNER"],
                  [id |-> 2, userId |-> 2, role |-> role]}
  /\ owner = 1
  /\ currentWorkspace = [u \in Users |-> IF u = 1 THEN W ELSE "other"]
  /\ nextId = 3
  /\ calls = [p \in Procs |-> IdleCall]
  /\ ncalls = 0
  /\ probe = ProbeIdle
  /\ ChatInitOver(<<>>)
  /\ mongo = "up"
  /\ ExtInit

\* joinWorkspaceByInvite, leaveWorkspace, removeMember and transferOwnership
\* requests arrive in any slot while others are in flight; the event loop
\* runs one database answer at a time, in any order.
LifecycleRaceNext ==
  \E p \in Procs :
    \/ (ncalls < MaxRaceCalls /\ \E u \in Users : joinWorkspaceByInviteService(p, u, InviteCode))
    \/ (ncalls < MaxRaceCalls /\ \E u \in Users : leaveWorkspaceService(p, W, u))
    \/ (ncalls < MaxRaceCalls
        /\ \E t \in Users, a \in Users : removeMemberService(p, W, t, a))
    \/ (ncalls < MaxRaceCalls
        /\ \E t \in Users, a \in Users : transferOwnershipService(p, W, t, a))
    \/ joinWorkspace_findExisting(p)
    \/ joinWorkspace_save(p)
    \/ leaveWorkspace_findMember(p)
    \/ leaveWorkspace_findUser(p)
    \/ leaveWorkspace_saveUser(p)
    \/ leaveWorkspace_delete(p)
    \/ removeMember_findTarget(p)
    \/ removeMember_findRequester(p)
    \/ removeMember_delete(p)
    \/ transferOwnership_findCurrentOwner(p)
    \/ transferOwnership_findNewOwner(p)
    \/ transferOwnership_writeWorkspaceOwner(p)
    \/ transferOwnership_writeNewOwnerRole(p)
    \/ transferOwnership_writeOldOwnerRole(p)
    \/ transferOwnership_verifyNewOwner(p)
    \/ transferOwnership_verifyOldOwner(p)
    \/ transferOwnership_verifyWorkspace(p)
    \/ transferOwnership_rollbackWorkspaceOwner(p)
    \/ transferOwnership_rollbackOldOwnerRole(p)
    \/ transferOwnership_rollbackNewOwnerRole(p)
    \/ Respond(p)

LifecycleRaceSpec == LifecycleRaceInit /\ [][LifecycleRaceNext]_vars

(* ------------- the evaluator applied to every pair of names ------------ *)
EvalInit ==
  /\ InitStore
  /\ \E a \in RoleNames, t \in RoleNames :
       probe = [ProbeIdle EXCEPT !.requestingRole = a, !.targetRole = t]
  /\ ChatInitOver(<<>>)
  /\ mongo = "up"
  /\ ExtInit

\* getRoleHierarchyLevel of both names.
EvalLevels ==
  /\ ~probe.levelled
  /\ probe' = [probe EXCEPT !.levelled = TRUE,
                            !.requestingLevel = getRoleHierarchyLevel(probe.requestingRole),
                            !.targetLevel = getRoleHierarchyLevel(probe.targetRole)]
  /\ UNCHANGED <<members, owner, currentWorkspace, nextId, calls, ncalls, chatVars, extVars>>

\* canModifyRole(requestingRole, targetRole)
EvalCanModify ==
  /\ ~probe.evaluated
  /\ probe' = [probe EXCEPT !.evaluated = TRUE,
                            !.result = canModifyRole(probe.requestingRole, probe.targetRole)]
  /\ UNCHANGED <<members, owner, currentWorkspace, nextId, calls, ncalls, chatVars, extVars>>

EvalNext == EvalLevels \/ EvalCanModify

EvalSpec == EvalInit /\ [][EvalNext]_vars

(* --------- the error handler applied to every kind of failure ---------- *)
\* HTTPSTATUS members and error codes that an AppError may carry.
StatusCodes == {"BAD_REQUEST", "FORBIDDEN", "NOT_FOUND", "INTERNAL_SERVER_ERROR"}

ErrorCodes == {"AUTH_INVALID_TOKEN", "ACCESS_UNAUTHORIZED", "RESOURCE_NOT_FOUND",
               "INTERNAL_SERVER_ERROR"}

\* What a handler or a middleware before it may throw: the exceptions of
\* utils/appError (a BadRequestException with or without its codes), the
\* body parser's SyntaxError for malformed JSON, a ZodError of a schema, and
\* errors of other libraries (the driver, mongoose, the runtime).
ErrorInputs ==
  {Thrown("AppError", n, m, sc, ec) :
     n \in {"NotFoundException", "ForbiddenException", "InternalServerException", "Error"},
     m \in {"Member not found", "You are not a member of this workspace"},
     sc \in StatusCodes, ec \in ErrorCodes}
  \cup {Thrown("AppError", "BadRequestException", m, sc, ec) :
          m \in {"Cannot remove the workspace owner"},
          sc \in StatusCodes \cup {""}, ec \in ErrorCodes \cup {""}}
  \cup {Thrown("SyntaxError", "SyntaxError", "Unexpected token } in JSON at position 12",
               sc, "") : sc \in {"", "BAD_REQUEST"}}
  \cup {Thrown("ZodError", "ZodError", "text: String must contain at least 1 character(s)",
               "", "")}
  \cup {Thrown("Error", n, m, "", "") :
          n \in {"Error", "TypeError", "ValidationError", "MongoNetworkError"},
          m \in {"", "connect ECONNREFUSED 127.0.0.1:27017",
                 "Message validation failed: _id: Path _id is required."}}

ErrInit ==
  /\ InitStore
  /\ probe = ProbeIdle
  /\ ChatInitOver(<<>>)
  /\ mongo = "up"
  /\ env = CalmEnv
  /\ failure \in ErrorInputs
  /\ response = NoResponse
  /\ client = NoClient

\* app.use(errorHandler): the failure of a request reaches the middleware.
errorHandler_call ==
  /\ response = NoResponse
  /\ response' = errorHandler(failure)
  /\ UNCHANGED <<memberVars, chatVars, env, failure, client>>

ErrNext == errorHandler_call

ErrSpec == ErrInit /\ [][ErrNext]_vars

(* ============================ socket.service.ts ======================== *)
\* Client-generated message ids.
MessageIds == {"m1", "m2"}

\* send_message payloads with text, sender and workspaceId present.
WellFormed == [id : MessageIds, text : {"hi"}, sender : {"u1"}, workspaceId : ChatWorkspaces]

\* send_message payloads that lack one of the three ("" is falsy, as undefined is).
Malformed ==
  { [id |-> "m1", text |-> "",   sender |-> "u1", workspaceId |-> W],
    [id |-> "m1", text |-> "hi", sender |-> "",   workspaceId |-> W],
    [id |-> "m1", text |-> "hi", sender |-> "u1", workspaceId |-> ""] }

MessagePayloads == WellFormed \cup Malformed

\* The events the server emits.
LOAD_MESSAGES(batch) == [event |-> "load_messages", messages |-> batch]

RECEIVE_MESSAGE(doc) == [event |-> "receive_message", messages |-> <<doc>>]

Min(a, b) == IF a <= b THEN a ELSE b

\* .sort({ timestamp: 1 }): ascending, equal timestamps in insertion order.
\* Document i goes to the place after every document that sorts before it.
SortByTimestamp(docs) ==
  LET n == Len(docs)
      before(j, i) ==
        \/ docs[j].timestamp < docs[i].timestamp
        \/ (docs[j].timestamp = docs[i].timestamp /\ j < i)
      place == [i \in 1 .. n |-> Cardinality({j \in 1 .. n : before(j, i)}) + 1]
  IN  [r \in 1 .. n |-> docs[CHOOSE i \in 1 .. n : place[i] = r]]

\* MessageModel.find({ workspaceId }).sort({ timestamp: 1 }).limit(100)
Find(workspaceId) ==
  LET sorted == SortByTimestamp(SelectSeq(messages, LAMBDA m : m.workspaceId = workspaceId))
  IN  SubSeq(sorted, 1, Min(HistoryLimit, Len(sorted)))

\* The slot a new async handler runs in.
HasFreeTask == \E t \in Tasks : tasks[t].kind = "idle"

FreeTask == CHOOSE t \in Tasks : tasks[t].kind = "idle" /\ \A u \in Tasks : tasks[u].kind = "idle" => t <= u

\* socket.emit(event): to this connection, if it is still open.
EmitTo(c, event) ==
  [inbox EXCEPT ![c] = IF sockets[c] = "connected" THEN Append(@, event) ELSE @]

\* Variant: the broadcast puts the event in front of what a connection has.
Broadcast_NewestFirst(room, event) ==
  [c \in Conns |-> IF room \in rooms[c] THEN <<event>> \o inbox[c] ELSE inbox[c]]

\* Variant: io.emit(event), to every open connection whatever its rooms.
Broadcast_ToAll(room, event) ==
  [c \in Conns |-> IF sockets[c] = "connected" THEN Append(inbox[c], event) ELSE inbox[c]]

\* io.to(room).emit(event): to every connection in the room, the sender included.
Broadcast(room, event) ==
  [c \in Conns |-> IF room \in rooms[c] THEN Append(inbox[c], event) ELSE inbox[c]]

(* ----------------------------- connection ------------------------------ *)
\* socket.handshake.query.userId: connection c is opened by user c. The
\* handler reads the value for its log lines and for nothing else.
handshakeUserId(c) == c

\* io.on('connection'): the socket joins the room of its handshake workspaceId
\* and the history load starts.
connection(c, workspaceId) ==
  /\ sockets[c] = "pending"
  /\ nops < MaxChatOps
  /\ nops' = nops + 1
  /\ sockets' = [sockets EXCEPT ![c] = "connected"]
  /\ IF workspaceId # ""
     THEN /\ HasFreeTask
          /\ rooms' = [rooms EXCEPT ![c] = @ \cup {Room(workspaceId)}]
          /\ tasks' = [tasks EXCEPT ![FreeTask] =
               [IdleTask EXCEPT !.kind = "connection", !.pc = "cn_find", !.conn = c,
                                !.workspaceId = workspaceId]]
     ELSE UNCHANGED <<rooms, tasks>>
  /\ UNCHANGED <<messages, inbox, now, stderr, mongo, memberVars, extVars>>

\* The history query of the connection handler answers, or throws.
connection_find(t) ==
  /\ tasks[t].pc = "cn_find"
  /\ tasks' = [tasks EXCEPT ![t] =
       IF mongo = "down" THEN [@ EXCEPT !.pc = "cn_emit", !.failed = TRUE]
       ELSE [@ EXCEPT !.pc = "cn_emit", !.batch = Find(tasks[t].workspaceId)]]
  /\ UNCHANGED <<messages, sockets, rooms, inbox, now, nops, stderr, mongo, memberVars, extVars>>

\* socket.emit(LOAD_MESSAGES, { messages }), or the catch block's empty batch.
connection_emit(t) ==
  /\ tasks[t].pc = "cn_emit"
  /\ inbox' = EmitTo(tasks[t].conn, LOAD_MESSAGES(tasks[t].batch))
  /\ stderr' = IF tasks[t].failed THEN "Error auto-loading messages:" ELSE stderr
  /\ tasks' = [tasks EXCEPT ![t] = IdleTask]
  /\ UNCHANGED <<messages, sockets, rooms, now, nops, mongo, memberVars, extVars>>

(* ------------------- join_workspace / leave_workspace ------------------ *)
\* Variant: joining a room leaves every other room of the connection.
JOIN_WORKSPACE_Exclusive(c, workspaceId) ==
  /\ sockets[c] = "connected"
  /\ nops < MaxChatOps
  /\ nops' = nops + 1
  /\ rooms' = IF workspaceId = "" THEN rooms
              ELSE [rooms EXCEPT ![c] = {Room(workspaceId)}]
  /\ UNCHANGED <<messages, sockets, inbox, tasks, now, stderr, mongo, memberVars, extVars>>

JOIN_WORKSPACE(c, workspaceId) ==
  /\ sockets[c] = "connected"
  /\ nops < MaxChatOps
  /\ nops' = nops + 1
  /\ rooms' = IF workspaceId = "" THEN rooms
              ELSE [rooms EXCEPT ![c] = @ \cup {Room(workspaceId)}]
  /\ UNCHANGED <<messages, sockets, inbox, tasks, now, stderr, mongo, memberVars, extVars>>

LEAVE_WORKSPACE(c, workspaceId) ==
  /\ sockets[c] = "connected"
  /\ nops < MaxChatOps
  /\ nops' = nops + 1
  /\ rooms' = IF workspaceId = "" THEN rooms
              ELSE [rooms EXCEPT ![c] = @ \ {Room(workspaceId)}]
  /\ UNCHANGED <<messages, sockets, inbox, tasks, now, stderr, mongo, memberVars, extVars>>

(* ----------------------------- send_message ---------------------------- *)
\* Variant: the payload is not validated.
SEND_MESSAGE_NoValidation(c, message) ==
  /\ sockets[c] = "connected"
  /\ nops < MaxChatOps
  /\ nops' = nops + 1
  /\ HasFreeTask
  /\ tasks' = [tasks EXCEPT ![FreeTask] =
       [IdleTask EXCEPT !.kind = "send_message", !.pc = "sn_save", !.conn = c,
                        !.workspaceId = message.workspaceId,
                        !.doc = [id |-> message.id, text |-> message.text,
                                 sender |-> message.sender,
                                 workspaceId |-> message.workspaceId,
                                 timestamp |-> now + env.lag,
                                         expireAt |-> setDate(now)]]]
  /\ now' = now + env.lag + 1
  /\ UNCHANGED <<messages, sockets, rooms, inbox, stderr, mongo, memberVars, extVars>>

\* The handler up to `await newMessage.save()`: validation, then the document
\* with the client's id and timestamp new Date().
SEND_MESSAGE(c, message) ==
  /\ sockets[c] = "connected"
  /\ nops < MaxChatOps
  /\ nops' = nops + 1
  /\ IF message.text = "" \/ message.sender = "" \/ message.workspaceId = ""
     THEN /\ stderr' = "Invalid message format:"
          /\ UNCHANGED <<tasks, now>>
     ELSE /\ HasFreeTask
          /\ tasks' = [tasks EXCEPT ![FreeTask] =
               [IdleTask EXCEPT !.kind = "send_message", !.pc = "sn_save", !.conn = c,
                                !.workspaceId = message.workspaceId,
                                !.doc = [id |-> message.id, text |-> message.text,
                                         sender |-> message.sender,
                                         workspaceId |-> message.workspaceId,
                                         timestamp |-> now + env.lag,
                                         expireAt |-> setDate(now)]]]
          /\ now' = now + env.lag + 1
          /\ UNCHANGED stderr
  /\ UNCHANGED <<messages, sockets, rooms, inbox, mongo, memberVars, extVars>>

\* Variant: the write is an upsert; a stored document with this _id is
\* replaced and the handler goes on to broadcast.
SEND_MESSAGE_save_Upsert(t) ==
  /\ tasks[t].pc = "sn_save"
  /\ IF mongo = "down"
     THEN /\ tasks' = [tasks EXCEPT ![t].pc = "sn_catch", ![t].failed = TRUE]
          /\ UNCHANGED messages
     ELSE /\ messages' =
               IF \E i \in 1 .. Len(messages) : messages[i].id = tasks[t].doc.id
               THEN [i \in 1 .. Len(messages) |->
                       IF messages[i].id = tasks[t].doc.id THEN tasks[t].doc ELSE messages[i]]
               ELSE Append(messages, tasks[t].doc)
          /\ tasks' = [tasks EXCEPT ![t].pc = "sn_emit"]
  /\ UNCHANGED <<sockets, rooms, inbox, now, nops, stderr, mongo, memberVars, extVars>>

\* newMessage.save() answers: the insert, or an error (a stored document has
\* this _id already, or the database is down).
SEND_MESSAGE_save(t) ==
  /\ tasks[t].pc = "sn_save"
  /\ IF mongo = "down" \/ \E i \in 1 .. Len(messages) : messages[i].id = tasks[t].doc.id
     THEN /\ tasks' = [tasks EXCEPT ![t].pc = "sn_catch", ![t].failed = TRUE]
          /\ UNCHANGED messages
     ELSE /\ messages' = Append(messages, tasks[t].doc)
          /\ tasks' = [tasks EXCEPT ![t].pc = "sn_emit"]
  /\ UNCHANGED <<sockets, rooms, inbox, now, nops, stderr, mongo, memberVars, extVars>>

\* Variant: the broadcast leaves the sender's connection out.
SEND_MESSAGE_emit_ExceptSender(t) ==
  /\ tasks[t].pc = "sn_emit"
  /\ inbox' = [c \in Conns |->
                 IF Room(tasks[t].workspaceId) \in rooms[c] /\ c # tasks[t].conn
                 THEN Append(inbox[c], RECEIVE_MESSAGE(tasks[t].doc)) ELSE inbox[c]]
  /\ tasks' = [tasks EXCEPT ![t] = IdleTask]
  /\ UNCHANGED <<messages, sockets, rooms, now, nops, stderr, mongo, memberVars, extVars>>

\* io.to(`workspace:${workspaceId}`).emit(RECEIVE_MESSAGE, messageToSend)
SEND_MESSAGE_emit(t) ==
  /\ tasks[t].pc = "sn_emit"
  /\ inbox' = Broadcast(Room(tasks[t].workspaceId), RECEIVE_MESSAGE(tasks[t].doc))
  /\ tasks' = [tasks EXCEPT ![t] = IdleTask]
  /\ UNCHANGED <<messages, sockets, rooms, now, nops, stderr, mongo, memberVars, extVars>>

\* catch (error) { console.error('Error handling message:', error) }
SEND_MESSAGE_catch(t) ==
  /\ tasks[t].pc = "sn_catch"
  /\ stderr' = "Error handling message:"
  /\ tasks' = [tasks EXCEPT ![t] = IdleTask]
  /\ UNCHANGED <<messages, sockets, rooms, inbox, now, nops, mongo, memberVars, extVars>>

(* ----------------------------- get_messages ---------------------------- *)
GET_MESSAGES(c, workspaceId) ==
  /\ sockets[c] = "connected"
  /\ nops < MaxChatOps
  /\ nops' = nops + 1
  /\ IF workspaceId = ""
     THEN /\ inbox' = EmitTo(c, LOAD_MESSAGES(<<>>))
          /\ UNCHANGED tasks
     ELSE /\ HasFreeTask
          /\ tasks' = [tasks EXCEPT ![FreeTask] =
               [IdleTask EXCEPT !.kind = "get_messages", !.pc = "gm_find", !.conn = c,
                                !.workspaceId = workspaceId]]
          /\ UNCHANGED inbox
  /\ UNCHANGED <<messages, sockets, rooms, now, stderr, mongo, memberVars, extVars>>

\* The history query of the get_messages handler answers, or throws.
GET_MESSAGES_find(t) ==
  /\ tasks[t].pc = "gm_find"
  /\ tasks' = [tasks EXCEPT ![t] =
       IF mongo = "down" THEN [@ EXCEPT !.pc = "gm_emit", !.failed = TRUE]
       ELSE [@ EXCEPT !.pc = "gm_emit", !.batch = Find(tasks[t].workspaceId)]]
  /\ UNCHANGED <<messages, sockets, rooms, inbox, now, nops, stderr, mongo, memberVars, extVars>>

\* socket.emit(LOAD_MESSAGES, { messages }), or the catch block's empty batch.
GET_MESSAGES_emit(t) ==
  /\ tasks[t].pc = "gm_emit"
  /\ inbox' = EmitTo(tasks[t].conn, LOAD_MESSAGES(tasks[t].batch))
  /\ stderr' = IF tasks[t].failed THEN "Error fetching messages:" ELSE stderr
  /\ tasks' = [tasks EXCEPT ![t] = IdleTask]
  /\ UNCHANGED <<messages, sockets, rooms, now, nops, mongo, memberVars, extVars>>

(* ------------------------------ disconnect ----------------------------- *)
\* The socket closes: socket.io takes it out of every room.
disconnect(c) ==
  /\ sockets[c] = "connected"
  /\ nops < MaxChatOps
  /\ nops' = nops + 1
  /\ sockets' = [sockets EXCEPT ![c] = "disconnected"]
  /\ rooms' = [rooms EXCEPT ![c] = {}]
  /\ UNCHANGED <<messages, inbox, tasks, now, stderr, mongo, memberVars, extVars>>

(* ========================== chat.controller.ts ======================== *)
\* req.user of an authenticated request: the sender object's id.
SenderOf(userId) == "u" \o ToString(userId)

\* Texts a request body may carry; "" fails z.string().min(1).
RestTexts == {"hi", ""}

\* RolePermissions of utils/role-permission: every role may view.
RolePermissions == [r \in Roles |-> {"VIEW_ONLY"}]

\* roleGuard(role, requiredPermissions): the error it throws, or none.
roleGuard(role, requiredPermissions) ==
  IF role = ""
  THEN Thrown("AppError", "ForbiddenException", "No role specified",
              "FORBIDDEN", "ACCESS_UNAUTHORIZED")
  ELSE IF role \notin DOMAIN RolePermissions
  THEN Thrown("AppError", "ForbiddenException", "Invalid role: " \o role,
              "FORBIDDEN", "ACCESS_UNAUTHORIZED")
  ELSE IF requiredPermissions \ RolePermissions[role] # {}
  THEN Thrown("AppError", "ForbiddenException",
              "Role " \o role \o " is missing required permissions",
              "FORBIDDEN", "ACCESS_UNAUTHORIZED")
  ELSE NoError

\* getMemberRoleInWorkspace(userId, workspaceId) and roleGuard(role.name,
\* [VIEW_ONLY]) on the Member document m that findOne gave: the error thrown,
\* or none. Every Member of the store has a seeded role, so the repair
\* branches for a missing role are not taken.
checkMember(m) ==
  IF m = NoMember
  THEN Thrown("AppError", "ForbiddenException", "You are not a member of this workspace",
              "FORBIDDEN", "ACCESS_UNAUTHORIZED")
  ELSE roleGuard(m.role, {"VIEW_ONLY"})

\* What the driver throws when the database does not answer.
MongoError == Thrown("Error", "MongoNetworkError", "connect ECONNREFUSED 127.0.0.1:27017", "", "")

\* What newMessage.save() throws for a document it does not insert, or none:
\* the schema requires _id and generates none (_id: false), and _id is unique.
saveError(doc) ==
  IF mongo = "down" THEN MongoError
  ELSE IF doc.id = ""
  THEN Thrown("Error", "ValidationError",
              "Message validation failed: _id: Path _id is required.", "", "")
  ELSE IF \E i \in 1 .. Len(messages) : messages[i].id = doc.id
  THEN Thrown("Error", "MongoServerError", "E11000 duplicate key error", "", "")
  ELSE NoError

\* res.json of a Message document: its stored paths, _id among them; the id
\* getter is a virtual and virtuals are not serialised, so there is no id.
toJSON(doc) ==
  [_id |-> doc.id, id |-> "", text |-> doc.text, sender |-> doc.sender,
   workspaceId |-> doc.workspaceId, timestamp |-> doc.timestamp, expireAt |-> doc.expireAt]

\* asyncHandler: the controller in slot t throws error; the error handler answers.
Fail(t, error) ==
  /\ failure' = error
  /\ response' = errorHandler(error)
  /\ tasks' = [tasks EXCEPT ![t] = IdleTask]

\* GET /workspace/:workspaceId/chat arrives from an authenticated user; the
\* controller awaits getMemberRoleInWorkspace.
getWorkspaceMessagesController(userId, workspaceId) ==
  /\ HasFreeTask
  /\ nops' = nops + 1
  /\ tasks' = [tasks EXCEPT ![FreeTask] =
       [IdleTask EXCEPT !.kind = "rest_get", !.pc = "rg_member", !.userId = userId,
                        !.workspaceId = workspaceId]]
  /\ UNCHANGED <<messages, sockets, rooms, inbox, now, stderr, mongo, memberVars, extVars>>

\* MemberModel.findOne answers; not a member or no permission throws.
getWorkspaceMessages_member(t) ==
  /\ tasks[t].pc = "rg_member"
  /\ \E m \in (IF tasks[t].workspaceId = W THEN FindOne(tasks[t].userId) ELSE {NoMember}) :
       LET error == IF mongo = "down" THEN MongoError ELSE checkMember(m)
       IN  IF error # NoError
           THEN Fail(t, error)
           ELSE /\ tasks' = [tasks EXCEPT ![t].pc = "rg_find"]
                /\ UNCHANGED <<failure, response>>
  /\ UNCHANGED <<messages, sockets, rooms, inbox, now, nops, stderr, mongo, memberVars, env, client>>

\* MessageModel.find({ workspaceId }).sort({ timestamp: 1 }).limit(100)
\* answers and the controller sends 200 with the documents.
getWorkspaceMessages_find(t) ==
  /\ tasks[t].pc = "rg_find"
  /\ IF mongo = "down"
     THEN Fail(t, MongoError)
     ELSE /\ response' = Response("OK",
               [Body("Messages fetched successfully", "") EXCEPT
                  !.messages = [i \in 1 .. Len(Find(tasks[t].workspaceId)) |->
                                  toJSON(Find(tasks[t].workspaceId)[i])]])
          /\ tasks' = [tasks EXCEPT ![t] = IdleTask]
          /\ UNCHANGED failure
  /\ UNCHANGED <<messages, sockets, rooms, inbox, now, nops, stderr, mongo, memberVars, env, client>>

\* POST /workspace/:workspaceId/chat arrives; messageSchema.parse(req.body)
\* throws a ZodError for an empty text, else the controller awaits
\* getMemberRoleInWorkspace.
createMessageController(userId, workspaceId, text) ==
  /\ HasFreeTask
  /\ nops' = nops + 1
  /\ IF text = ""
     THEN /\ failure' = Thrown("ZodError", "ZodError",
                               "text: String must contain at least 1 character(s)", "", "")
          /\ response' = errorHandler(failure')
          /\ UNCHANGED tasks
     ELSE /\ tasks' = [tasks EXCEPT ![FreeTask] =
               [IdleTask EXCEPT !.kind = "rest_post", !.pc = "rp_member", !.userId = userId,
                                !.workspaceId = workspaceId,
                                !.doc = [NoDoc EXCEPT !.text = text]]]
          /\ UNCHANGED <<failure, response>>
  /\ UNCHANGED <<messages, sockets, rooms, inbox, now, stderr, mongo, memberVars, env, client>>

\* MemberModel.findOne answers; a member with the permission gets the document
\* new MessageModel({ text, sender, workspaceId, timestamp: new Date() }): no
\* _id is given, and expireAt is the schema default, which reads the clock
\* after the timestamp.
createMessage_member(t) ==
  /\ tasks[t].pc = "rp_member"
  /\ \E m \in (IF tasks[t].workspaceId = W THEN FindOne(tasks[t].userId) ELSE {NoMember}) :
       LET error == IF mongo = "down" THEN MongoError ELSE checkMember(m)
       IN  IF error # NoError
           THEN Fail(t, error) /\ UNCHANGED now
           ELSE /\ tasks' = [tasks EXCEPT ![t].pc = "rp_save",
                                          ![t].doc = [id |-> "", text |-> @.text,
                                                      sender |-> SenderOf(tasks[t].userId),
                                                      workspaceId |-> tasks[t].workspaceId,
                                                      timestamp |-> now,
                                                      expireAt |-> setDate(now + env.lag)]]
                /\ now' = now + env.lag + 1
                /\ UNCHANGED <<failure, response>>
  /\ UNCHANGED <<messages, sockets, rooms, inbox, nops, stderr, mongo, memberVars, env, client>>

\* newMessage.save() answers: the insert and 201 with the document, or the
\* error, which the error handler answers.
createMessage_save(t) ==
  /\ tasks[t].pc = "rp_save"
  /\ IF saveError(tasks[t].doc) # NoError
     THEN Fail(t, saveError(tasks[t].doc)) /\ UNCHANGED messages
     ELSE /\ messages' = Append(messages, tasks[t].doc)
          /\ response' = Response("CREATED",
               [Body("Message sent successfully", "") EXCEPT
                  !.newMessage = <<toJSON(tasks[t].doc)>>])
          /\ tasks' = [tasks EXCEPT ![t] = IdleTask]
          /\ UNCHANGED failure
  /\ UNCHANGED <<sockets, rooms, inbox, now, nops, stderr, mongo, memberVars, env, client>>

(* --------------------------- time and the TTL index -------------------- *)
\* A day passes while no handler is in flight.
Tick ==
  /\ now < MaxDays * DayMs
  /\ \A t \in Tasks : tasks[t].kind = "idle"
  /\ now' = now + DayMs
  /\ UNCHANGED <<messages, sockets, rooms, inbox, tasks, nops, stderr, mongo, memberVars, extVars>>

\* messageSchema.index({ expireAt: 1 }, { expireAfterSeconds: 0 }): a pass of
\* the store's background task deletes the documents whose expireAt has come.
ttlMonitor ==
  /\ \E i \in 1 .. Len(messages) : messages[i].expireAt <= now
  /\ messages' = SelectSeq(messages, LAMBDA m : m.expireAt > now)
  /\ UNCHANGED <<sockets, rooms, inbox, tasks, now, nops, stderr, mongo, memberVars, extVars>>

(* ------------------------- chat specifications ------------------------- *)
\* Any client event on any connection, and any database answer, in any order.
ChatInit ==
  /\ InitStore
  /\ probe = ProbeIdle
  /\ ChatInitOver(<<>>)
  /\ mongo \in {"up", "down"}
  /\ ExtInit

ChatNext ==
  \/ \E c \in Conns, workspaceId \in ChatWorkspaces \cup {""} :
       \/ connection(c, workspaceId)
       \/ JOIN_WORKSPACE(c, workspaceId)
       \/ LEAVE_WORKSPACE(c, workspaceId)
       \/ GET_MESSAGES(c, workspaceId)
  \/ \E c \in Conns, message \in MessagePayloads : SEND_MESSAGE(c, message)
  \/ \E c \in Conns : disconnect(c)
  \/ \E t \in Tasks :
       \/ connection_find(t)
       \/ connection_emit(t)
       \/ SEND_MESSAGE_save(t)
       \/ SEND_MESSAGE_emit(t)
       \/ SEND_MESSAGE_catch(t)
       \/ GET_MESSAGES_find(t)
       \/ GET_MESSAGES_emit(t)

ChatSpec == ChatInit /\ [][ChatNext]_vars

\* A store that earlier sends filled: k messages of workspace W with ids m1..mk
\* and timestamps 1..k, then one message of the other workspace.
SeedDoc(i, workspaceId) ==
  [id |-> "m" \o ToString(i), text |-> "hi", sender |-> "u1",
   workspaceId |-> workspaceId, timestamp |-> i, expireAt |-> i + ExpireDays * DayMs]

Seed(k) == [i \in 1 .. k |-> SeedDoc(i, W)] \o <<SeedDoc(k + 1, "w2")>>

SeedSizes == {0} \cup ((HistoryLimit - 1) .. (HistoryLimit + MaxOverflow))

HistoryInit ==
  /\ InitStore
  /\ probe = ProbeIdle
  /\ \E k \in SeedSizes : ChatInitOver(Seed(k))
  /\ mongo \in {"up", "down"}
  /\ ExtInit

\* Connections open and ask for the history of a filled store.
HistoryNext ==
  \/ \E c \in Conns, workspaceId \in ChatWorkspaces \cup {""} :
       nops < MaxHistoryOps /\ connection(c, workspaceId)
  \/ \E c \in Conns, workspaceId \in ChatWorkspaces \cup {""} :
       nops < MaxHistoryOps /\ GET_MESSAGES(c, workspaceId)
  \/ \E t \in Tasks :
       \/ connection_find(t)
       \/ connection_emit(t)
       \/ GET_MESSAGES_find(t)
       \/ GET_MESSAGES_emit(t)

HistorySpec == HistoryInit /\ [][HistoryNext]_vars

\* Every connection is open, is in the room of workspace W and has got the
\* (empty) history of its connection; sends from any of them then overlap.
OrderInit ==
  /\ InitStore
  /\ probe = ProbeIdle
  /\ messages = <<>>
  /\ sockets = [c \in Conns |-> "connected"]
  /\ rooms = [c \in Conns |-> {Room(W)}]
  /\ inbox = [c \in Conns |-> <<LOAD_MESSAGES(<<>>)>>]
  /\ tasks = [t \in Tasks |-> IdleTask]
  /\ now = 1
  /\ nops = 0
  /\ stderr = NoLine
  /\ mongo = "up"
  /\ ExtInit

OrderNext ==
  \/ \E c \in Conns, message \in MessagePayloads : SEND_MESSAGE(c, message)
  \/ \E c \in Conns : LEAVE_WORKSPACE(c, W)
  \/ \E t \in Tasks :
       \/ SEND_MESSAGE_save(t)
       \/ SEND_MESSAGE_emit(t)
       \/ SEND_MESSAGE_catch(t)

OrderSpec == OrderInit /\ [][OrderNext]_vars

\* The workspace after user 2 has joined it by invite code (user 3 has not),
\* an empty Message collection, and a clock environment.
RetentionInit ==
  /\ members = {[id |-> 1, userId |-> 1, role |-> "OWNER"],
                [id |-> 2, userId |-> 2, role |-> "MEMBER"]}
  /\ owner = 1
  /\ currentWorkspace = [u \in Users |-> IF u = 1 THEN W ELSE "other"]
  /\ nextId = 3
  /\ calls = [p \in Procs |-> IdleCall]
  /\ ncalls = 0
  /\ probe = ProbeIdle
  /\ ChatInitOver(<<>>)
  /\ mongo \in {"up", "down"}
  /\ env \in ClockEnvs
  /\ failure = NoError
  /\ response = NoResponse
  /\ client = NoClient

\* Socket events and REST requests of the chat, the passing of time and the
\* passes of the TTL task, in any order.
RetentionNext ==
  \/ \E c \in Conns : nops < MaxRetentionOps /\ connection(c, W)
  \/ \E c \in Conns : nops < MaxRetentionOps /\ GET_MESSAGES(c, W)
  \/ \E c \in Conns, message \in {m \in WellFormed : m.workspaceId = W} :
       nops < MaxRetentionOps /\ SEND_MESSAGE(c, message)
  \/ \E u \in Users, workspaceId \in ChatWorkspaces :
       nops < MaxRetentionOps /\ getWorkspaceMessagesController(u, workspaceId)
  \/ \E u \in Users, workspaceId \in ChatWorkspaces, text \in RestTexts :
       nops < MaxRetentionOps /\ createMessageController(u, workspaceId, text)
  \/ Tick
  \/ ttlMonitor
  \/ \E t \in Tasks :
       \/ connection_find(t)
       \/ connection_emit(t)
       \/ SEND_MESSAGE_save(t)
       \/ SEND_MESSAGE_emit(t)
       \/ SEND_MESSAGE_catch(t)
       \/ GET_MESSAGES_find(t)
       \/ GET_MESSAGES_emit(t)
       \/ getWorkspaceMessages_member(t)
       \/ getWorkspaceMessages_find(t)
       \/ createMessage_member(t)
       \/ createMessage_save(t)

RetentionSpec == RetentionInit /\ [][RetentionNext]_vars

(* ===================== chatService.ts, Chat.tsx (client) =============== *)
\* The messages the user of the tab types and sends.
MaxTyped == 2

\* uuidv4(): the k-th id the tab draws; no two draws give the same id.
uuidv4(k) == "m" \o ToString(k)

\* socket && socket.connected, as the tab sees it.
socketConnected ==
  client.socket = "created" /\ sockets[ClientConn] = "connected" /\ ~client.dropped

\* { ...msg, timestamp: new Date(msg.timestamp) } of an object the server
\* emitted: toObject() with id set to the string of _id.
FromSocket(msg) ==
  [id |-> msg.id, _id |-> msg.id, text |-> msg.text, sender |-> msg.sender,
   workspaceId |-> msg.workspaceId, timestamp |-> msg.timestamp]

\* { ...msg, timestamp: new Date(msg.timestamp) } of an element of the REST
\* answer: the spread copies what the JSON has, so id stays undefined ("").
FromAPI(msg) ==
  [id |-> msg.id, _id |-> msg._id, text |-> msg.text, sender |-> msg.sender,
   workspaceId |-> msg.workspaceId, timestamp |-> msg.timestamp]

MapSeq(f(_), seq) == [i \in 1 .. Len(seq) |-> f(seq[i])]

\* getDemoMessages(workspaceId): the three fixed placeholder messages.
getDemoMessages(workspaceId) ==
  << [id |-> "1", _id |-> "", text |-> "Welcome to the team chat!", sender |-> "system",
      workspaceId |-> workspaceId, timestamp |-> now - 3600000],
     [id |-> "2", _id |-> "", text |-> "Hi everyone! How's the project coming along?",
      sender |-> "user1", workspaceId |-> workspaceId, timestamp |-> now - 1800000],
     [id |-> "3", _id |-> "", text |-> "We're making good progress.", sender |-> "user2",
      workspaceId |-> workspaceId, timestamp |-> now - 900000] >>

\* Variant: getMessagesFromAPI without its catch block; a failed request
\* rejects the promise.
getMessagesFromAPI_Rethrow(ok, workspaceId) ==
  IF ok
  THEN [state |-> "fulfilled", source |-> "api",
        value |-> MapSeq(FromAPI, MapSeq(toJSON, Find(workspaceId)))]
  ELSE [state |-> "rejected", source |-> "error", value |-> <<>>]

\* getMessagesFromAPI(workspaceId) settles. ok: the request was answered with
\* a 2xx status, whose body is what the controller's find gave; otherwise the
\* fetch threw or the status was not ok, and the catch block returns the
\* placeholder messages.
getMessagesFromAPI(ok, workspaceId) ==
  IF ok
  THEN [state |-> "fulfilled", source |-> "api",
        value |-> MapSeq(FromAPI, MapSeq(toJSON, Find(workspaceId)))]
  ELSE [state |-> "fulfilled", source |-> "demo", value |-> getDemoMessages(workspaceId)]

\* The SocketProvider effect: io(API_URL, { query: { userId, workspaceId } })
\* starts the handshake, and setSocket(socketInstance).
SocketProvider_effect ==
  /\ client.socket = "null"
  /\ client' = [client EXCEPT !.socket = "created",
                              !.outbox = Append(@, [event |-> "connection", workspaceId |-> W,
                                                    message |-> <<>>])]
  /\ UNCHANGED <<memberVars, chatVars, env, failure, response>>

\* The Chat load effect runs for the socket value s it was rendered with:
\* loadMessages() calls getMessages(socket, workspaceId) up to its first
\* await, then joinWorkspaceChat(socket, workspaceId).
\*   getMessages, no connected socket: resolve(getMessagesFromAPI(workspaceId)).
\*   getMessages, connected: emit GET_MESSAGES, once(LOAD_MESSAGES), setTimeout.
Chat_loadEffect(s) ==
  /\ client.socket = s
  /\ client.loads[s].promise = "none"
  /\ IF socketConnected
     THEN client' = [client EXCEPT
            !.loads[s] = [NoLoad EXCEPT !.promise = "pending", !.listening = TRUE,
                                        !.timer = TRUE],
            !.outbox = @ \o << [event |-> "get_messages", workspaceId |-> W, message |-> <<>>],
                               [event |-> "join_workspace", workspaceId |-> W,
                                message |-> <<>>] >>]
     ELSE client' = [client EXCEPT
            !.loads[s] = [NoLoad EXCEPT !.promise = "locked", !.fetch = "sent"]]
  /\ UNCHANGED <<memberVars, chatVars, env, failure, response>>

\* setTimeout(() => resolve(getMessagesFromAPI(workspaceId)), 5000) fires. The
\* timer is never cleared, so the request is made also after the promise was
\* fulfilled; resolve on a resolved promise does nothing.
getMessages_timeout(s) ==
  /\ client.loads[s].timer
  /\ client' = [client EXCEPT
       !.loads[s].timer = FALSE,
       !.loads[s].fetch = "sent",
       !.loads[s].promise = IF @ = "pending" THEN "locked" ELSE @]
  /\ UNCHANGED <<memberVars, chatVars, env, failure, response>>

\* The request of getMessagesFromAPI is answered or fails, and the promise
\* getMessages was resolved with (if it was) settles.
getMessagesFromAPI_settle(s) ==
  /\ client.loads[s].fetch = "sent"
  /\ \E ok \in BOOLEAN :
       /\ ok => mongo = "up"
       /\ LET settled == getMessagesFromAPI(ok, W)
          IN  client' = [client EXCEPT
                !.loads[s] = IF @.promise = "locked"
                             THEN [@ EXCEPT !.fetch = "done", !.promise = settled.state,
                                            !.value = settled.value,
                                            !.source = settled.source]
                             ELSE [@ EXCEPT !.fetch = "done"]]
  /\ UNCHANGED <<memberVars, chatVars, env, failure, response>>

\* const chatMessages = await getMessages(...) resumes: setMessages(chatMessages).
Chat_setMessages(s) ==
  /\ client.loads[s].promise = "fulfilled"
  /\ ~client.loads[s].applied
  /\ client' = [client EXCEPT !.loads[s].applied = TRUE,
                              !.rendered = client.loads[s].value]
  /\ UNCHANGED <<memberVars, chatVars, env, failure, response>>

\* handleNewMessage(newMessage) under setMessages(prev => ...).
handleNewMessage(prevMessages, newMessage) ==
  IF newMessage.workspaceId = W
  THEN IF \E i \in 1 .. Len(prevMessages) : prevMessages[i].id = newMessage.id
       THEN prevMessages
       ELSE Append(prevMessages, FromSocket(newMessage))
  ELSE prevMessages

\* The once(LOAD_MESSAGES) listener of a getMessages call: it is taken off and
\* resolves with the mapped batch; resolve on a resolved promise does nothing.
once_LOAD_MESSAGES(load, batch) ==
  IF ~load.listening THEN load
  ELSE IF load.promise = "pending"
       THEN [load EXCEPT !.listening = FALSE, !.promise = "fulfilled",
                         !.value = MapSeq(FromSocket, batch), !.source = "socket"]
       ELSE [load EXCEPT !.listening = FALSE]

\* The tab's socket dispatches the next event the server emitted to it:
\* receive_message to handleNewMessage, load_messages to every once listener.
socket_dispatch ==
  /\ client.seen < Len(inbox[ClientConn])
  /\ LET e == inbox[ClientConn][client.seen + 1]
     IN  client' = [client EXCEPT
           !.seen = @ + 1,
           !.rendered = IF e.event = "receive_message"
                        THEN handleNewMessage(client.rendered, e.messages[1])
                        ELSE client.rendered,
           !.loads = IF e.event = "load_messages"
                     THEN [s \in SocketStates |-> once_LOAD_MESSAGES(client.loads[s], e.messages)]
                     ELSE client.loads]
  /\ UNCHANGED <<memberVars, chatVars, env, failure, response>>

\* handleSendMessage with a non-blank text: sendMessage draws the id and emits
\* SEND_MESSAGE if the socket is connected; otherwise the message is added
\* to the list locally and goes nowhere.
handleSendMessage(text) ==
  /\ text # ""
  /\ client.uuids < MaxTyped
  /\ LET id == uuidv4(client.uuids + 1)
         newMessage == [id |-> id, text |-> text, sender |-> SenderOf(ClientUser),
                        workspaceId |-> W]
     IN  IF socketConnected
         THEN client' = [client EXCEPT
                !.uuids = @ + 1,
                !.outbox = Append(@, [event |-> "send_message", workspaceId |-> W,
                                      message |-> newMessage])]
         ELSE client' = [client EXCEPT
                !.uuids = @ + 1,
                !.rendered = Append(@, [id |-> id, _id |-> "", text |-> text,
                                        sender |-> SenderOf(ClientUser),
                                        workspaceId |-> W, timestamp |-> now])]
  /\ UNCHANGED <<memberVars, chatVars, env, failure, response>>

\* The tab loses its connection: socket.connected turns false at once, the
\* server learns of it later.
socket_drop ==
  /\ socketConnected
  /\ client' = [client EXCEPT !.dropped = TRUE,
                              !.outbox = Append(@, [event |-> "disconnect", workspaceId |-> W,
                                                    message |-> <<>>])]
  /\ UNCHANGED <<memberVars, chatVars, env, failure, response>>

\* The server takes the next thing the tab's socket sent; one socket's events
\* arrive in the order they were emitted.
server_on ==
  /\ nops < Len(client.outbox)
  /\ LET e == client.outbox[nops + 1]
     IN  \/ e.event = "connection" /\ connection(ClientConn, e.workspaceId)
         \/ e.event = "get_messages" /\ GET_MESSAGES(ClientConn, e.workspaceId)
         \/ e.event = "join_workspace" /\ JOIN_WORKSPACE(ClientConn, e.workspaceId)
         \/ e.event = "send_message" /\ SEND_MESSAGE(ClientConn, e.message)
         \/ e.event = "disconnect" /\ disconnect(ClientConn)

\* User 1 is a member of W; the store is empty, the database answers or not.
ClientInit ==
  /\ InitStore
  /\ probe = ProbeIdle
  /\ ChatInitOver(<<>>)
  /\ mongo \in {"up", "down"}
  /\ ExtInit

ClientNext ==
  \/ SocketProvider_effect
  \/ \E s \in SocketStates :
       \/ Chat_loadEffect(s)
       \/ getMessages_timeout(s)
       \/ getMessagesFromAPI_settle(s)
       \/ Chat_setMessages(s)
  \/ socket_dispatch
  \/ handleSendMessage("hi")
  \/ socket_drop
  \/ server_on
  \/ \E t \in Tasks :
       \/ connection_find(t)
       \/ connection_emit(t)
       \/ SEND_MESSAGE_save(t)
       \/ SEND_MESSAGE_emit(t)
       \/ SEND_MESSAGE_catch(t)
       \/ GET_MESSAGES_find(t)
       \/ GET_MESSAGES_emit(t)

ClientSpec == ClientInit /\ [][ClientNext]_vars


\* The socket io() made connects again after a drop (the manager's
\* reconnection, on by default in the options SocketProvider passes): the
\* server sees a new connection with the same handshake query, in no room,
\* and what the old connection had not delivered is gone.
socket_reconnect ==
  /\ client.socket = "created"
  /\ client.dropped
  /\ sockets[ClientConn] = "disconnected"
  /\ sockets' = [sockets EXCEPT ![ClientConn] = "pending"]
  /\ client' = [client EXCEPT !.dropped = FALSE,
                              !.seen = Len(inbox[ClientConn]),
                              !.outbox = Append(@, [event |-> "connection", workspaceId |-> W,
                                                    message |-> <<>>])]
  /\ UNCHANGED <<memberVars, messages, rooms, inbox, tasks, now, nops, stderr, mongo,
                 env, failure, response>>

\* The tab of ClientSpec, whose socket may also come back after a drop.
ReconnectNext ==
  \/ ClientNext
  \/ socket_reconnect

ReconnectSpec == ClientInit /\ [][ReconnectNext]_vars

\* Every step that can be taken is taken in the end: the server's handlers
\* and the tab's callbacks run to completion on their event loops, and the
\* network delivers or drops.
ReconnectFairSpec == ReconnectSpec /\ WF_vars(ReconnectNext)

\* The history fetch alone, over a store that earlier sends filled (or left
\* empty): the tab connects, loads, and may lose its connection.
LoadSeedSizes == {0, 2}

LoadInit ==
  /\ InitStore
  /\ probe = ProbeIdle
  /\ \E k \in LoadSeedSizes : ChatInitOver(Seed(k))
  /\ mongo \in {"up", "down"}
  /\ ExtInit

LoadNext ==
  \/ SocketProvider_effect
  \/ \E s \in SocketStates :
       \/ Chat_loadEffect(s)
       \/ getMessages_timeout(s)
       \/ getMessagesFromAPI_settle(s)
       \/ Chat_setMessages(s)
  \/ socket_dispatch
  \/ socket_drop
  \/ server_on
  \/ \E t \in Tasks :
       \/ connection_find(t)
       \/ connection_emit(t)
       \/ GET_MESSAGES_find(t)
       \/ GET_MESSAGES_emit(t)

LoadSpec == LoadInit /\ [][LoadNext]_vars

\* The browser's event loop runs a timer that is due, and a fetch settles (the
\* request is answered, or it fails, at the latest by the network's timeout).
LoadFairSpec ==
  /\ LoadSpec
  /\ \A s \in SocketStates :
       /\ WF_vars(getMessages_timeout(s))
       /\ WF_vars(getMessagesFromAPI_settle(s))

(* ======================= properties of the services ==================== *)
\* The role user u holds in the Member collection ms ("NONE": no Member record).
RoleIn(ms, u) ==
  IF \E m \in ms : m.userId = u THEN (CHOOSE m \in ms : m.userId = u).role ELSE "NONE"

OwnerMembers == {m \in members : m.role = "OWNER"}

\* C1: after any sequence of calls run one at a time to completion, exactly
\* one Member of the workspace holds role OWNER.
C1_ExactlyOneOwner == AllIdle => Cardinality(OwnerMembers) = 1

\* C2: in every reachable state workspace.owner is the userId of the Member
\* that holds role OWNER: some Member holds OWNER, and every Member that
\* holds OWNER is the user workspace.owner names.
C2_OwnerFieldIsOwnerMember ==
  /\ OwnerMembers # {}
  /\ \A m \in OwnerMembers : m.userId = owner

\* C3: at the moment a transferOwnership call returns success, also with
\* other transfers interleaved, exactly one Member holds OWNER, workspace.owner
\* is that Member's userId, and the previous owner's role is MEMBER.
C3_TransferSuccessPostcondition ==
  [][\A p \in Procs :
       (/\ calls[p].pc # "done"
        /\ calls'[p].pc = "done"
        /\ calls'[p].op = "transferOwnership"
        /\ calls'[p].result.exc = "none")
       => (/\ Cardinality({m \in members' : m.role = "OWNER"}) = 1
           /\ \A m \in members' : m.role = "OWNER" => m.userId = owner'
           /\ \E m \in members' : m.id = calls[p].req.id /\ m.role = "MEMBER")]_vars

\* C4: on the four roles canModifyRole(actor, target) is true exactly when
\* actor is OWNER or level(actor) > level(target), the levels being OWNER=4,
\* CO_OWNER=3, ADMIN=2, MEMBER=1 and 0 for any other name; with MEMBER as
\* actor it is false.
C4_CanModifyRoleTable ==
  LET level(r) == IF r = "OWNER" THEN 4 ELSE IF r = "CO_OWNER" THEN 3
                  ELSE IF r = "ADMIN" THEN 2 ELSE IF r = "MEMBER" THEN 1 ELSE 0
  IN  /\ probe.levelled =>
           /\ probe.requestingLevel = level(probe.requestingRole)
           /\ probe.targetLevel = level(probe.targetRole)
      /\ (probe.evaluated /\ probe.requestingRole \in Roles /\ probe.targetRole \in Roles) =>
           (probe.result <=> (\/ probe.requestingRole = "OWNER"
                              \/ level(probe.requestingRole) > level(probe.targetRole)))
      /\ (probe.evaluated /\ probe.requestingRole = "MEMBER") => ~probe.result

C4_Witness ==
  /\ probe.evaluated /\ probe.levelled
  /\ probe.requestingRole = "CO_OWNER" /\ probe.targetRole = "ADMIN"
  /\ probe.result

\* A removeMember or changeMemberRole call in slot p takes effect: it has
\* passed its tests and is about to write, or has written and returned.
TakesEffect(p) ==
  /\ calls[p].op \in {"removeMember", "changeMemberRole"}
  /\ \/ calls[p].pc \in {"rm_delete", "ch_write"}
     \/ calls[p].pc = "done" /\ calls[p].result.exc = "none"

C6_RemoveOwnerIsBadRequest ==
  \A p \in Procs :
    (/\ calls[p].op = "removeMember"
     /\ calls[p].ws = W
     /\ RoleIn(calls[p].pre.members, calls[p].target) = "OWNER")
    => /\ calls[p].pc \in {"rm_target", "done"}
       /\ \E m \in members : m.userId = calls[p].target /\ m.role = "OWNER"
       /\ calls[p].pc = "done" =>
            calls[p].result = BadRequestException("Cannot remove the workspace owner")

C6_Witness ==
  \E p \in Procs :
    /\ calls[p].op = "removeMember" /\ calls[p].pc = "done" /\ calls[p].ws = W
    /\ RoleIn(calls[p].pre.members, calls[p].target) = "OWNER"
    /\ RoleIn(calls[p].pre.members, calls[p].actor) = "NONE"
    /\ calls[p].result.exc = "BadRequestException"

\* removeMember in slot p was allowed on the store as the call found it.
RemoveAllowed(p) ==
  LET actingRole == RoleIn(calls[p].pre.members, calls[p].actor)
      targetRole == RoleIn(calls[p].pre.members, calls[p].target)
  IN  /\ calls[p].ws = W
      /\ actingRole # "NONE"
      /\ targetRole \notin {"NONE", "OWNER"}
      /\ canModifyRole(actingRole, targetRole)

\* C7: removeMember deletes the target's Member record only when the acting
\* user is a Member, the target is a Member whose role is not OWNER and
\* canModifyRole(acting role, target role) is true; in every other case it
\* fails and no Member record is deleted. Whatever it deletes is the target's
\* record and nothing else.
C7_RemoveOnlyWhenAllowed ==
  \A p \in Procs :
    calls[p].op = "removeMember" =>
      /\ members \subseteq calls[p].pre.members
      /\ \A m \in calls[p].pre.members \ members : m.userId = calls[p].target
      /\ ~RemoveAllowed(p) =>
           /\ members = calls[p].pre.members
           /\ calls[p].pc = "done" => calls[p].result.exc # "none"

C7_Witness ==
  \E p \in Procs :
    /\ calls[p].op = "removeMember" /\ calls[p].pc = "done"
    /\ calls[p].result.exc = "none"
    /\ RoleIn(calls[p].pre.members, calls[p].actor) = "ADMIN"
    /\ RoleIn(calls[p].pre.members, calls[p].target) = "MEMBER"
    /\ RoleIn(members, calls[p].target) = "NONE"

\* transferOwnership in slot p was eligible on the store as the call found it.
TransferEligible(p) ==
  /\ calls[p].ws = W
  /\ RoleIn(calls[p].pre.members, calls[p].actor) = "OWNER"
  /\ RoleIn(calls[p].pre.members, calls[p].target) \in {"ADMIN", "CO_OWNER"}

\* C8: transferOwnership changes a record only if the caller's role is OWNER
\* and the designated new owner is a Member whose role is ADMIN or CO_OWNER;
\* otherwise the call fails and workspace.owner and every Member's role are
\* unchanged.
C8_TransferOnlyWhenEligible ==
  \A p \in Procs :
    (calls[p].op = "transferOwnership" /\ ~TransferEligible(p)) =>
      /\ members = calls[p].pre.members
      /\ owner = calls[p].pre.owner
      /\ calls[p].pc \in {"tr_cur", "tr_new", "done"}
      /\ calls[p].pc = "done" => calls[p].result.exc = "BadRequestException"

C8_Witness ==
  \E p \in Procs :
    /\ calls[p].op = "transferOwnership" /\ calls[p].pc = "done"
    /\ RoleIn(calls[p].pre.members, calls[p].actor) = "OWNER"
    /\ RoleIn(calls[p].pre.members, calls[p].target) = "MEMBER"
    /\ calls[p].result.exc = "BadRequestException"

\* C9: when a transferOwnership call fails after its writes began and the
\* rollback writes all succeed, workspace.owner, the former owner's role and
\* the designated new owner's role have the values they had before the call.
C9_RollbackRestoresPreTransferState ==
  \A p \in Procs :
    (/\ calls[p].op = "transferOwnership"
     /\ calls[p].pc = "done"
     /\ calls[p].err # ""
     /\ calls[p].rbErr = "")
    => /\ owner = calls[p].pre.owner
       /\ RoleIn(members, calls[p].actor) = RoleIn(calls[p].pre.members, calls[p].actor)
       /\ RoleIn(members, calls[p].target) = RoleIn(calls[p].pre.members, calls[p].target)

\* C10: when transferOwnership fails and its rollback fails too, the caller
\* receives a bad request with the message of the original failure, never the
\* rollback failure.
C10_OriginalFailureReported ==
  \A p \in Procs :
    (/\ calls[p].op = "transferOwnership"
     /\ calls[p].pc = "done"
     /\ calls[p].rbErr # "")
    => /\ calls[p].err \in {WriteError, "Ownership transfer failed verification"}
       /\ calls[p].result = BadRequestException(calls[p].err)
       /\ calls[p].result.message # calls[p].rbErr

C10_Witness ==
  \E p \in Procs :
    /\ calls[p].op = "transferOwnership" /\ calls[p].pc = "done"
    /\ calls[p].rbErr = RollbackError
    /\ calls[p].err = WriteError
    /\ calls[p].result.exc = "BadRequestException"
    /\ owner # calls[p].pre.owner

\* C11: leaveWorkspace by a user whose role is OWNER fails with the bad-request
\* error that tells them to transfer ownership first, and leaves the user's
\* Member record and current-workspace pointer unchanged.
C11_OwnerCannotLeave ==
  \A p \in Procs :
    (/\ calls[p].op = "leaveWorkspace"
     /\ calls[p].ws = W
     /\ RoleIn(calls[p].pre.members, calls[p].actor) = "OWNER")
    => /\ calls[p].pc \in {"lv_member", "done"}
       /\ members = calls[p].pre.members
       /\ currentWorkspace = calls[p].pre.currentWorkspace
       /\ calls[p].pc = "done" =>
            calls[p].result = BadRequestException(
              "As the workspace owner, you cannot leave the workspace. Please transfer ownership first.")

C11_Witness ==
  \E p \in Procs :
    /\ calls[p].op = "leaveWorkspace" /\ calls[p].pc = "done" /\ calls[p].ws = W
    /\ RoleIn(calls[p].pre.members, calls[p].actor) = "OWNER"
    /\ calls[p].result.exc = "BadRequestException"
    /\ currentWorkspace[calls[p].actor] = W

\* C12: a successful leaveWorkspace deletes the leaving user's Member record
\* and sets the user's current-workspace pointer to null exactly when it named
\* that workspace; a pointer to another workspace, every other Member record
\* and workspace.owner are unchanged.
C12_LeaveFrame ==
  \A p \in Procs :
    (/\ calls[p].op = "leaveWorkspace"
     /\ calls[p].pc = "done"
     /\ calls[p].result.exc = "none")
    => /\ \E m \in calls[p].pre.members : m.userId = calls[p].actor
       /\ members = {m \in calls[p].pre.members : m.userId # calls[p].actor}
       /\ currentWorkspace =
            [u \in Users |->
               IF u = calls[p].actor /\ calls[p].pre.currentWorkspace[u] = calls[p].ws
               THEN "null" ELSE calls[p].pre.currentWorkspace[u]]
       /\ owner = calls[p].pre.owner

C12_Witness ==
  \E p \in Procs :
    /\ calls[p].op = "leaveWorkspace" /\ calls[p].pc = "done"
    /\ calls[p].result.exc = "none"
    /\ calls[p].pre.currentWorkspace[calls[p].actor] = W
    /\ currentWorkspace[calls[p].actor] = "null"
    /\ RoleIn(members, calls[p].actor) = "NONE"

\* The conditions under which a promoteToCoOwner call is to take effect, read
\* from the store as it was when the call started.
PromoteAllowed(p) ==
  /\ calls[p].arg = expectedConfirmation
  /\ calls[p].ws = W
  /\ RoleIn(calls[p].pre.members, calls[p].actor) = "OWNER"
  /\ RoleIn(calls[p].pre.members, calls[p].target) \in {"ADMIN", "MEMBER"}

\* C13: promoteToCoOwner sets the target's role to CO_OWNER exactly when the
\* confirmation text equals the acknowledgement phrase, the acting user holds
\* OWNER and the target is a Member holding neither OWNER nor CO_OWNER; in
\* every other case it fails and no role changes.
C13_PromoteExactlyWhenAllowed ==
  \A p \in Procs :
    calls[p].op = "promoteToCoOwner" =>
      /\ owner = calls[p].pre.owner
      /\ currentWorkspace = calls[p].pre.currentWorkspace
      /\ calls[p].pc # "done" => members = calls[p].pre.members
      /\ calls[p].pc = "done" =>
           IF PromoteAllowed(p)
           THEN /\ calls[p].result.exc = "none"
                /\ members =
                     {IF m.userId = calls[p].target THEN [m EXCEPT !.role = "CO_OWNER"] ELSE m :
                        m \in calls[p].pre.members}
                /\ RoleIn(members, calls[p].target) = "CO_OWNER"
           ELSE /\ calls[p].result.exc # "none"
                /\ members = calls[p].pre.members

C13_Witness ==
  \E p \in Procs :
    /\ calls[p].op = "promoteToCoOwner" /\ calls[p].pc = "done"
    /\ PromoteAllowed(p)
    /\ calls[p].result.exc = "none"
    /\ RoleIn(calls[p].pre.members, calls[p].target) = "MEMBER"
    /\ RoleIn(members, calls[p].target) = "CO_OWNER"

\* C14: changeMemberRole writes the new role only when canModifyRole(acting
\* role, target's current role) and canModifyRole(acting role, requested role)
\* are both true; an ADMIN asking to change a MEMBER to ADMIN fails and the
\* target's role is unchanged.
C14_ChangeNeedsBothTests ==
  \A p \in Procs :
    calls[p].op = "changeMemberRole" =>
      LET actingRole == RoleIn(calls[p].pre.members, calls[p].actor)
          targetRole == RoleIn(calls[p].pre.members, calls[p].target)
      IN  /\ (\/ calls[p].pc = "ch_write"
              \/ members # calls[p].pre.members
              \/ (calls[p].pc = "done" /\ calls[p].result.exc = "none"))
             => /\ canModifyRole(actingRole, targetRole)
                /\ canModifyRole(actingRole, calls[p].arg)
          /\ (/\ calls[p].ws = W
              /\ actingRole = "ADMIN" /\ targetRole = "MEMBER" /\ calls[p].arg = "ADMIN")
             => /\ members = calls[p].pre.members
                /\ calls[p].pc # "ch_write"
                /\ calls[p].pc = "done" => calls[p].result.exc = "BadRequestException"

C14_Witness ==
  \E p \in Procs :
    /\ calls[p].op = "changeMemberRole" /\ calls[p].pc = "done" /\ calls[p].ws = W
    /\ RoleIn(calls[p].pre.members, calls[p].actor) = "ADMIN"
    /\ RoleIn(calls[p].pre.members, calls[p].target) = "MEMBER"
    /\ calls[p].arg = "ADMIN"
    /\ calls[p].result = BadRequestException("Users with role ADMIN cannot assign the ADMIN role")
    /\ RoleIn(members, calls[p].target) = "MEMBER"

\* The users holding CO_OWNER in a set of Member records.
CoOwners(ms) == {m.userId : m \in {x \in ms : x.role = "CO_OWNER"}}

\* C15: a Member's role becomes CO_OWNER only by the write of a
\* promoteToCoOwner call made by the OWNER with the exact acknowledgement
\* phrase; changeMemberRole with requested role CO_OWNER always fails and
\* changes nothing, whatever the acting role.
C15_CoOwnerOnlyByPromotion ==
  /\ [](\A p \in Procs :
          (calls[p].op = "changeMemberRole" /\ calls[p].arg = "CO_OWNER")
          => /\ members = calls[p].pre.members
             /\ calls[p].pc # "ch_write"
             /\ calls[p].pc = "done" => calls[p].result.exc # "none")
  /\ [][\A u \in CoOwners(members') \ CoOwners(members) :
          \E p \in Procs :
            /\ calls[p].op = "promoteToCoOwner"
            /\ calls[p].pc = "pr_write"
            /\ calls[p].target = u
            /\ calls[p].arg = expectedConfirmation
            /\ RoleIn(calls[p].pre.members, calls[p].actor) = "OWNER"]_vars

C15_Witness ==
  \E p \in Procs :
    /\ calls[p].op = "changeMemberRole" /\ calls[p].pc = "done" /\ calls[p].ws = W
    /\ calls[p].arg = "CO_OWNER"
    /\ RoleIn(calls[p].pre.members, calls[p].actor) = "OWNER"
    /\ RoleIn(calls[p].pre.members, calls[p].target) = "MEMBER"
    /\ calls[p].result = BadRequestException(
         "Please use the dedicated promoteToCoOwner endpoint for co-owner promotion")
    /\ RoleIn(members, calls[p].target) = "MEMBER"

\* The Member records of user u.
RecordsOf(ms, u) == {m \in ms : m.userId = u}

\* C16: redeeming the active invite code for a user who already redeemed it,
\* one call after the other, yields a bad-request and leaves exactly one
\* Member record for that user; the first redemption created it with role
\* MEMBER and the second leaves it as it was.
C16_SecondRedeemIsBadRequest ==
  \A p \in Procs :
    (/\ calls[p].op = "joinWorkspaceByInvite"
     /\ calls[p].arg = InviteCode
     /\ calls[p].pc = "done")
    => /\ Cardinality(RecordsOf(members, calls[p].actor)) = 1
       /\ IF RecordsOf(calls[p].pre.members, calls[p].actor) = {}
          THEN /\ calls[p].result.exc = "none"
               /\ RoleIn(members, calls[p].actor) = "MEMBER"
               /\ members \ calls[p].pre.members = RecordsOf(members, calls[p].actor)
               /\ calls[p].pre.members \subseteq members
          ELSE /\ calls[p].result =
                    BadRequestException("You are already a member of this workspace")
               /\ members = calls[p].pre.members

C16_Witness ==
  \E p \in Procs :
    /\ calls[p].op = "joinWorkspaceByInvite" /\ calls[p].pc = "done"
    /\ calls[p].arg = InviteCode
    /\ ncalls = 2
    /\ calls[p].actor # owner
    /\ RoleIn(calls[p].pre.members, calls[p].actor) = "MEMBER"
    /\ calls[p].result.exc = "BadRequestException"
    /\ Cardinality(RecordsOf(members, calls[p].actor)) = 1
    /\ RoleIn(members, calls[p].actor) = "MEMBER"

MemberOnlyOps ==
  {"removeMember", "leaveWorkspace", "transferOwnership", "promoteToCoOwner", "changeMemberRole"}

\* C17: removeMember, leaveWorkspace, transferOwnership, promoteToCoOwner and
\* changeMemberRole change no Member record, workspace.owner or
\* current-workspace pointer when the acting user has no Member record in the
\* workspace; each fails with an error.
C17_NonMemberChangesNothing ==
  \A p \in Procs :
    (/\ calls[p].op \in MemberOnlyOps
     /\ RecordsOf(calls[p].pre.members, calls[p].actor) = {})
    => /\ members = calls[p].pre.members
       /\ owner = calls[p].pre.owner
       /\ currentWorkspace = calls[p].pre.currentWorkspace
       /\ calls[p].pc = "done" => calls[p].result.exc # "none"

C17_Witness ==
  \E p \in Procs :
    /\ calls[p].op = "removeMember" /\ calls[p].pc = "done" /\ calls[p].ws = W
    /\ RecordsOf(calls[p].pre.members, calls[p].actor) = {}
    /\ RoleIn(calls[p].pre.members, calls[p].target) = "MEMBER"
    /\ calls[p].result = BadRequestException("You are not a member of this workspace")
    /\ RoleIn(members, calls[p].target) = "MEMBER"

(* ======================== properties of the chat ======================= *)
\* The documents of a sequence.
DocsOf(docs) == {docs[i] : i \in 1 .. Len(docs)}

\* batch holds the most recent HistoryLimit stored messages of the workspace
\* (all of them when fewer are stored), ascending by timestamp, and nothing else.
IsMostRecentBatch(batch, workspaceId) ==
  LET stored == {m \in DocsOf(messages) : m.workspaceId = workspaceId}
  IN  /\ Len(batch) = Min(HistoryLimit, Cardinality(stored))
      /\ Cardinality(DocsOf(batch)) = Len(batch)
      /\ DocsOf(batch) \subseteq stored
      /\ \A i \in 1 .. Len(batch) - 1 : batch[i].timestamp <= batch[i + 1].timestamp
      /\ \A m \in stored \ DocsOf(batch) : \A b \in DocsOf(batch) : m.timestamp <= b.timestamp

\* C18: on a connection that carries a workspace id and on a get_messages
\* request, the history query that answers yields the most recent 100
\* persisted messages of that workspace (the 100 with the largest timestamps
\* when more are stored), ascending by timestamp, none of another workspace;
\* the server then sends it to the connection as one load_messages batch.
C18_HistoryIsMostRecentHundred ==
  [][\A t \in Tasks :
       /\ (/\ tasks[t].pc \in {"cn_find", "gm_find"}
           /\ tasks'[t].pc \in {"cn_emit", "gm_emit"}
           /\ ~tasks'[t].failed)
          => IsMostRecentBatch(tasks'[t].batch, tasks[t].workspaceId)
       /\ (tasks[t].pc \in {"cn_emit", "gm_emit"} /\ tasks'[t].pc = "idle")
          => inbox' = [inbox EXCEPT ![tasks[t].conn] =
                         IF sockets[tasks[t].conn] = "connected"
                         THEN Append(@, LOAD_MESSAGES(tasks[t].batch)) ELSE @]]_vars

\* The receive_message events in a connection's inbox.
Received(c) == SelectSeq(inbox[c], LAMBDA e : e.event = "receive_message")

\* C19: a send_message with text, sender and workspace id present first
\* persists the message under the client's id and then emits receive_message
\* to every connection that is in room workspace:<id> at that moment, the
\* sender's connection included; no receive_message is emitted for a message
\* whose write did not succeed.
C19_PersistThenBroadcast ==
  [][/\ \A c \in Conns, message \in WellFormed :
          SEND_MESSAGE(c, message)
          => /\ inbox' = inbox
             /\ messages' = messages
             /\ \E t \in Tasks :
                  /\ tasks[t].kind = "idle"
                  /\ tasks'[t].pc = "sn_save"
                  /\ tasks'[t].conn = c
                  /\ tasks'[t].doc.id = message.id
                  /\ tasks'[t].doc.text = message.text
                  /\ tasks'[t].doc.workspaceId = message.workspaceId
     /\ \A t \in Tasks :
          /\ (tasks[t].pc = "sn_save" /\ tasks'[t].pc = "sn_emit")
             => /\ messages' = Append(messages, tasks[t].doc)
                /\ inbox' = inbox
          /\ (tasks[t].pc = "sn_save" /\ tasks'[t].pc = "sn_catch")
             => messages' = messages /\ inbox' = inbox
          /\ (tasks[t].pc = "sn_catch" /\ tasks'[t].pc = "idle")
             => messages' = messages /\ inbox' = inbox
          /\ (tasks[t].pc = "sn_emit" /\ tasks'[t].pc = "idle")
             => /\ tasks[t].doc \in DocsOf(messages)
                /\ \A c \in Conns :
                     inbox'[c] = IF Room(tasks[t].doc.workspaceId) \in rooms[c]
                                 THEN Append(inbox[c], RECEIVE_MESSAGE(tasks[t].doc))
                                 ELSE inbox[c]
     /\ (\E c \in Conns : Received(c)' # Received(c))
        => \E t \in Tasks : tasks[t].pc = "sn_emit" /\ tasks'[t].pc = "idle"]_vars

C19_Witness ==
  \E c1 \in Conns, c2 \in Conns :
    /\ c1 # c2
    /\ Len(messages) = 1
    /\ \A t \in Tasks : tasks[t].kind = "idle"
    /\ Received(c1) = <<RECEIVE_MESSAGE(messages[1])>>
    /\ Received(c2) = <<RECEIVE_MESSAGE(messages[1])>>
    /\ Room(messages[1].workspaceId) \in rooms[c1] \cap rooms[c2]

\* C20: a send_message payload that lacks text, sender or workspace id is
\* dropped: the handler's step persists nothing, emits nothing to any
\* connection (no receive_message, no error event) and leaves no handler in
\* flight.
C20_MalformedSendIsDropped ==
  [][\A c \in Conns, message \in Malformed :
       SEND_MESSAGE(c, message)
       => /\ messages' = messages
          /\ inbox' = inbox
          /\ tasks' = tasks]_vars

C20_Witness ==
  /\ stderr = "Invalid message format:"
  /\ messages = <<>>
  /\ \A t \in Tasks : tasks[t].kind = "idle"
  /\ \A c \in Conns : inbox[c] = <<>>
  /\ \E c \in Conns : sockets[c] = "connected" /\ rooms[c] = {}

\* C27: join_workspace and leave_workspace are idempotent on a connection's
\* room set and change only the named room: after a join the connection is in
\* the named room, after a leave it is not, its membership of every other
\* room and every other connection's rooms are as before, and a join of a
\* room it is already in (a leave of a room it is not in) changes nothing; so
\* a connection that joins several workspaces is in all their rooms at once.
C27_JoinLeaveIdempotent ==
  [][\A c \in Conns, workspaceId \in ChatWorkspaces :
       /\ JOIN_WORKSPACE(c, workspaceId)
          => /\ Room(workspaceId) \in rooms'[c]
             /\ rooms'[c] \ {Room(workspaceId)} = rooms[c] \ {Room(workspaceId)}
             /\ \A d \in Conns \ {c} : rooms'[d] = rooms[d]
             /\ Room(workspaceId) \in rooms[c] => rooms' = rooms
       /\ LEAVE_WORKSPACE(c, workspaceId)
          => /\ Room(workspaceId) \notin rooms'[c]
             /\ rooms'[c] \ {Room(workspaceId)} = rooms[c] \ {Room(workspaceId)}
             /\ \A d \in Conns \ {c} : rooms'[d] = rooms[d]
             /\ Room(workspaceId) \notin rooms[c] => rooms' = rooms]_vars

C27_Witness ==
  \E c \in Conns :
    /\ sockets[c] = "connected"
    /\ rooms[c] = {Room(workspaceId) : workspaceId \in ChatWorkspaces}
    /\ nops = MaxChatOps

\* The documents of the receive_message events a connection has got, in order.
Delivered(c) == [i \in 1 .. Len(Received(c)) |-> Received(c)[i].messages[1]]

\* C22: a send completes its persistence write when its handler comes back
\* from `await newMessage.save()` with the document stored, and that step is
\* its broadcast: every connection in the room at that step gets the message
\* after everything it has got before, and nothing else delivers a message.
\* So a connection that stays in the room receives the messages in the order
\* in which the sends completed, and any two connections have the messages
\* that both of them got in the same relative order; the order of the
\* timestamps (the order in which the sends were issued) may be another one.
C22_DeliveryInCompletionOrder ==
  /\ [](\A c1 \in Conns, c2 \in Conns :
          \A i \in 1 .. Len(Delivered(c1)), j \in 1 .. Len(Delivered(c1)) :
            \A k \in 1 .. Len(Delivered(c2)), l \in 1 .. Len(Delivered(c2)) :
              (i < j /\ Delivered(c1)[i] = Delivered(c2)[k]
                     /\ Delivered(c1)[j] = Delivered(c2)[l]) => k < l)
  /\ [][/\ \A t \in Tasks :
              (tasks[t].pc = "sn_emit" /\ tasks'[t].pc = "idle")
              => /\ tasks[t].doc \in DocsOf(messages)
                 /\ \A c \in Conns :
                      Delivered(c)' = IF Room(tasks[t].doc.workspaceId) \in rooms[c]
                                      THEN Append(Delivered(c), tasks[t].doc)
                                      ELSE Delivered(c)
        /\ (\E c \in Conns : Delivered(c)' # Delivered(c))
           => \E t \in Tasks : tasks[t].pc = "sn_emit" /\ tasks'[t].pc = "idle"]_vars

\* Two connections that stayed in the room both got the message issued second
\* before the message issued first.
C22_Witness ==
  \E c1 \in Conns, c2 \in Conns :
    /\ c1 # c2
    /\ Len(Delivered(c1)) = 2
    /\ Delivered(c1) = Delivered(c2)
    /\ Delivered(c1)[1].timestamp > Delivered(c1)[2].timestamp
    /\ \A t \in Tasks : tasks[t].kind = "idle"

\* The messages of the hierarchy rejections of removeMember and changeMemberRole.
HierarchyRejections ==
  {"Users with role " \o a \o " cannot remove users with role " \o t : a \in Roles, t \in Roles}
  \cup {"Users with role " \o a \o " cannot modify users with role " \o t : a \in Roles, t \in Roles}
  \cup {"Users with role " \o a \o " cannot assign the " \o t \o " role" : a \in Roles, t \in Roles}

\* C28: a removeMember or changeMemberRole call that the hierarchy test
\* rejects ends with an error of the forbidden category that names the rule,
\* not with the bad-request category of the business-rule refusals.
C28_HierarchyRejectionIsForbidden ==
  \A p \in Procs :
    (/\ calls[p].op \in {"removeMember", "changeMemberRole"}
     /\ calls[p].pc = "done"
     /\ calls[p].result.message \in HierarchyRejections)
    => /\ calls[p].result.exc = "ForbiddenException"
       /\ calls[p].result.exc # "BadRequestException"

\* C30: under any interleaving of changeMemberRole, removeMember and
\* promoteToCoOwner calls, a delete or role write that takes effect is
\* authorised against the roles stored at the moment of the write: the actor
\* is a Member then, and unless the actor's stored role is OWNER the target's
\* stored role is strictly below the actor's stored role.
C30_WritesAuthorisedAtWriteTime ==
  [][\A p \in Procs :
       (/\ calls[p].pc \in {"rm_delete", "ch_write", "pr_write"}
        /\ calls'[p].pc = "done"
        /\ members' # members)
       => LET actingRole == RoleIn(members, calls[p].actor)
              targetRole == RoleIn(members, calls[p].target)
          IN  /\ actingRole # "NONE"
              /\ actingRole # "OWNER"
                 => getRoleHierarchyLevel(targetRole) < getRoleHierarchyLevel(actingRole)]_vars

\* C29: every failure response of the error handler has a message and a
\* machine-readable errorCode, and an exception it does not recognise is
\* answered with the generic internal-error response alone, which carries no
\* text of the exception.
C29_StructuredFailureResponses ==
  response # NoResponse =>
    /\ response.body.message # ""
    /\ response.body.errorCode # ""
    /\ (failure.class = "Error" /\ failure.name # "BadRequestException")
       => /\ response.status = "INTERNAL_SERVER_ERROR"
          /\ response.body.message = "Internal Server Error"
          /\ response.body.errorCode = "INTERNAL_SERVER_ERROR"
          /\ failure.message # "" => response.body.error # failure.message

\* C23: a message is never returned after its expiry timestamp, whatever the
\* delay of the TTL task: at the moment a history query answers (the catch-up
\* batch of a connection, a get_messages response, the REST history) no
\* document of the answer has an expireAt earlier than the clock.
C23_ExpiredNeverReturned ==
  [][\A t \in Tasks :
       /\ (tasks[t].pc \in {"cn_find", "gm_find"} /\ tasks'[t].pc \in {"cn_emit", "gm_emit"})
          => \A i \in 1 .. Len(tasks'[t].batch) : tasks'[t].batch[i].expireAt >= now
       /\ (tasks[t].pc = "rg_find" /\ tasks'[t].pc = "idle")
          => \A i \in 1 .. Len(response'.body.messages) :
               response'.body.messages[i].expireAt >= now]_vars

\* 48 hours, in milliseconds.
FortyEightHours == 48 * HourMs

\* C24: every persisted message has an expiry equal to its stored creation
\* timestamp plus exactly 48 hours.
C24_ExpiryIsTimestampPlus48h ==
  \A i \in 1 .. Len(messages) :
    messages[i].expireAt = messages[i].timestamp + FortyEightHours

\* C25: a REST send by a member of the workspace with a non-empty text (the
\* database answering) persists exactly one new message in the store of the
\* socket path and returns it with 201; it emits no receive_message.
C25_RestSendPersistsAndReturns ==
  [][\A t \in Tasks :
       (tasks[t].pc = "rp_save" /\ tasks'[t].pc = "idle" /\ mongo = "up")
       => /\ Len(messages') = Len(messages) + 1
          /\ SubSeq(messages', 1, Len(messages)) = messages
          /\ messages'[Len(messages')].text = tasks[t].doc.text
          /\ messages'[Len(messages')].workspaceId = tasks[t].workspaceId
          /\ response'.status = "CREATED"
          /\ response'.body.newMessage = <<toJSON(messages'[Len(messages')])>>
          /\ inbox' = inbox]_vars

\* C26: a getMessages call always completes with a list and never with an
\* error. Its promise is never rejected. It is fulfilled either by the
\* socket's load_messages answer while still pending, or, once the timer has
\* fired or when no socket was connected at the call, by the REST request:
\* with the REST list if the request succeeded and with the placeholder
\* messages if it failed. Once fulfilled, no later socket answer, timer or REST
\* answer changes the value. And every call made is eventually fulfilled.
C26_Settles(a, b) ==
  /\ a.promise = "fulfilled" => b = [a EXCEPT !.listening = b.listening, !.timer = b.timer,
                                              !.fetch = b.fetch, !.applied = b.applied]
  /\ a.promise # "fulfilled" /\ b.promise = "fulfilled" =>
       \/ /\ a.promise = "pending"
          /\ client.seen < Len(inbox[ClientConn])
          /\ inbox[ClientConn][client.seen + 1].event = "load_messages"
          /\ b.source = "socket"
          /\ b.value = MapSeq(FromSocket, inbox[ClientConn][client.seen + 1].messages)
       \/ /\ a.promise = "locked"
          /\ a.fetch = "sent"
          /\ \/ /\ b.source = "api"
                /\ mongo = "up"
                /\ b.value = MapSeq(FromAPI, MapSeq(toJSON, Find(W)))
             \/ /\ b.source = "demo"
                /\ b.value = getDemoMessages(W)
  /\ a.promise # "locked" /\ b.promise = "locked" =>
       \/ a.promise = "none" /\ ~socketConnected
       \/ a.promise = "pending" /\ a.timer /\ ~b.timer

C26_HistoryFetchAlwaysCompletes ==
  /\ [](\A s \in SocketStates :
          client.loads[s].promise \in {"none", "pending", "locked", "fulfilled"})
  /\ [][\A s \in SocketStates : C26_Settles(client.loads[s], client'.loads[s])]_vars
  /\ \A s \in SocketStates :
       (client.loads[s].promise # "none") ~> (client.loads[s].promise = "fulfilled")

\* A call the socket answered with a stored history, whose timer then fired
\* and whose REST request settled: the value is still the socket's.
C26_Witness ==
  \E s \in SocketStates :
    /\ client.loads[s].promise = "fulfilled"
    /\ client.loads[s].source = "socket"
    /\ client.loads[s].fetch = "done"
    /\ Len(client.loads[s].value) = 2

\* The message an entry of the rendered list is for: its id, or, where the
\* entry has no id, the _id it was stored under.
MessageOf(entry) == IF entry.id # "" THEN entry.id ELSE entry._id

\* C21: the rendered message list never holds two entries for the same
\* message id, whether an entry came from a receive_message broadcast, from
\* the local fallback of a send or from a history load.
C21_NoTwoEntriesForOneMessage ==
  \A i, j \in 1 .. Len(client.rendered) :
    i # j => MessageOf(client.rendered[i]) # MessageOf(client.rendered[j])

\* C31: a Member record is never destroyed while it is the workspace's
\* current owner. Whenever no call is in flight, workspace.owner names a user
\* that has a Member record, and no delete of leaveWorkspace or removeMember
\* takes away a record whose stored role is OWNER, also when the call ran
\* interleaved with a transferOwnership that names the leaving or removed user
\* as the new owner.
C31_OwnerRecordNeverDestroyed ==
  /\ [](AllIdle => FindOne(owner) # {NoMember})
  /\ [][\A p \in Procs :
          leaveWorkspace_delete(p) \/ removeMember_delete(p) =>
            \A m \in members \ members' : m.role # "OWNER"]_vars

\* C32: there is at most one Member record per (user, workspace) pair, also
\* when two joinWorkspaceByInvite calls of one user run interleaved.
C32_OneRecordPerUser ==
  \A m1, m2 \in members : m1.userId = m2.userId => m1 = m2

\* C33: a successful removeMember changes nothing except deleting the
\* target's Member record: every other Member record, workspace.owner and
\* every user's current-workspace pointer, the removed user's included, are
\* as the call found them.
C33_RemoveFrame ==
  \A p \in Procs :
    (/\ calls[p].op = "removeMember"
     /\ calls[p].pc = "done"
     /\ calls[p].result.exc = "none")
    => /\ \E m \in calls[p].pre.members : m.userId = calls[p].target
       /\ members = {m \in calls[p].pre.members : m.userId # calls[p].target}
       /\ owner = calls[p].pre.owner
       /\ currentWorkspace = calls[p].pre.currentWorkspace

\* A removal succeeded while the removed user's pointer named the workspace
\* and other Members were left.
C33_Witness ==
  \E p \in Procs :
    /\ calls[p].op = "removeMember" /\ calls[p].pc = "done"
    /\ calls[p].result.exc = "none"
    /\ calls[p].pre.currentWorkspace[calls[p].target] = W
    /\ currentWorkspace[calls[p].target] = W
    /\ RoleIn(members, calls[p].target) = "NONE"
    /\ Cardinality(members) >= 2

C40_PointerNamesAMembership ==
  AllIdle => \A u \in Users : currentWorkspace[u] = W => RoleIn(members, u) # "NONE"

C38_DeliveryOnlyInRoom ==
  [][\A c \in Conns :
       /\ \A w \in ChatWorkspaces :
            /\ (Room(w) \in rooms'[c] \ rooms[c])
               => connection(c, w) \/ JOIN_WORKSPACE(c, w)
            /\ (Room(w) \in rooms[c] \ rooms'[c])
               => LEAVE_WORKSPACE(c, w) \/ disconnect(c)
       /\ Received(c)' # Received(c)
          => \E t \in Tasks :
               /\ tasks[t].pc = "sn_emit" /\ tasks'[t].pc = "idle"
               /\ Room(tasks[t].doc.workspaceId) \in rooms[c]
               /\ Received(c)' = Append(Received(c), RECEIVE_MESSAGE(tasks[t].doc))]_vars

\* A message of one workspace was broadcast to the connection in its room,
\* while an open connection that is only in the other workspace's room got
\* nothing.
C38_Witness ==
  \E c1 \in Conns, c2 \in Conns :
    /\ \A t \in Tasks : tasks[t].kind = "idle"
    /\ Len(messages) = 1
    /\ Received(c1) = <<RECEIVE_MESSAGE(messages[1])>>
    /\ sockets[c2] = "connected"
    /\ rooms[c2] # {}
    /\ Room(messages[1].workspaceId) \notin rooms[c2]
    /\ Received(c2) = <<>>

\* C39: the messages of workspace W reach, and are written by, its Members
\* only. A connection whose user has no Member record in W never holds an
\* event carrying a message of W (catch-up batch, get_messages answer or
\* broadcast), and no send from such a connection stores a message in W.
C39_OnlyMembersReachMessages ==
  /\ [](\A c \in Conns :
          RoleIn(members, handshakeUserId(c)) = "NONE" =>
            \A i \in 1 .. Len(inbox[c]) : \A k \in 1 .. Len(inbox[c][i].messages) :
              inbox[c][i].messages[k].workspaceId # W)
  /\ [][\A t \in Tasks :
          (/\ tasks[t].pc = "sn_save"
           /\ tasks'[t].pc = "sn_emit"
           /\ tasks[t].doc.workspaceId = W)
          => RoleIn(members, handshakeUserId(tasks[t].conn)) # "NONE"]_vars

\* The started history loads of the tab have all been put on screen, the one
\* of the current socket value among them.
LoadsCompleted ==
  /\ client.loads[client.socket].applied
  /\ \A s \in SocketStates : client.loads[s].promise # "none" => client.loads[s].applied

\* C37: no message shown to a connected client is lost by a history load.
\* Once the tab's history loads have completed, the rendered list has an
\* entry for every message of the workspace whose receive_message the tab's
\* socket has dispatched, also for one that was dispatched after the server
\* ran the history query and before the batch was applied.
C37_LoadKeepsBroadcasts ==
  LoadsCompleted =>
    \A i \in 1 .. client.seen :
      LET e == inbox[ClientConn][i]
      IN  (e.event = "receive_message" /\ e.messages[1].workspaceId = W) =>
            \E k \in 1 .. Len(client.rendered) :
              MessageOf(client.rendered[k]) = e.messages[1].id

\* The k-th message the user typed got its id while the socket was not
\* connected: sendMessage returned without emitting it.
TypedOffline(k) ==
  /\ k <= client.uuids
  /\ \A i \in 1 .. Len(client.outbox) :
       client.outbox[i].event = "send_message" => client.outbox[i].message.id # uuidv4(k)

Stored(id) == \E i \in 1 .. Len(messages) : messages[i].id = id

\* C35: a message the user sends while the tab's socket is disconnected is
\* sent in the end once the socket is connected again: from the moment the
\* socket is connected with such a message typed, the message comes to be
\* stored on the server.
C35_OfflineSendEventuallySent ==
  \A k \in 1 .. MaxTyped :
    (TypedOffline(k) /\ socketConnected) ~> Stored(uuidv4(k))

\* A message typed while the socket was not connected is never emitted.
OfflineSendNeverStored ==
  \A k \in 1 .. MaxTyped : TypedOffline(k) => ~Stored(uuidv4(k))

====
